---------------------------- MODULE Spec2Model ----------------------------
(***************************************************************************)
(* The Meta-Mind kernel (graph store, auto-layout, undo history, viewport, *)
(* subscribers, persistence), the sandbox controller's linking mode and    *)
(* the phase engines' editable fields, as a state machine.                 *)
(*                                                                         *)
(* The repository holds several generations of the same kernel class.  The *)
(* variable `variant` says which file is running:                          *)
(*   "core"   src/meta-mind-core.js               (v4.0, ES module)        *)
(*   "legacy" src/Legacy-v6/meta-mind-core copy.js (v3.7; the kernel of    *)
(*            src/unnamed/part_000, v3.2, has the same methods)            *)
(*   "v10"    src/stable/v10/meta-mind-core.js    (v4.0, visited-set       *)
(*            layout)                                                      *)
(*   "v11"    src/stable/v11/meta-mind-core.js    (v4.1, auto-arrange)     *)
(* Every kernel method is an operator from a kernel record k (the fields   *)
(* of this.state plus the id generator) to the kernel record after the     *)
(* call, so that a method calling another method is one step.              *)
(***************************************************************************)
EXTENDS Integers, Sequences, FiniteSets, TLC

\* ------------------------------------------------------------------ bounds
MaxSteps == 4      \* kernel/controller calls in one behaviour of Spec
MaxNodes == 3      \* nodes a behaviour of Spec may hold at once
StackLimit == 6    \* frames of recursion the engine allows before RangeError
MaxLayoutNodes == 3  \* nodes of a graph SpecLayout lays out
MaxLayoutEdges == 2  \* edges of a graph SpecLayout lays out
MaxLayoutRuns == 2   \* consecutive autoLayout calls in SpecLayout
Precision == 5       \* significand bits of a Number in SpecViewport
MaxViewportSteps == 2  \* pan and zoom calls in one behaviour of SpecViewport
MaxApiSteps == 3     \* calls in one behaviour of SpecSubscribed
MaxSubscribers == 2  \* registrations this.listeners holds in SpecSubscribed
MaxPersistSteps == 6 \* calls, waits and timer events in SpecPersist
MaxForestNodes == 5  \* nodes of a forest SpecForest lays out
MaxCompares == 2     \* nodeComparator calls in one behaviour of SpecCompare
MaxSorts == 1        \* sorts in one behaviour of SpecSort
MaxUndoSteps == 2    \* calls in one behaviour of SpecUndo
MaxSharedNodes == 3  \* nodes of a graph SpecShared lays out
MaxSharedEdges == 4  \* edges of a graph SpecShared lays out
MaxReentrantSteps == 4  \* calls in one behaviour of SpecReentrant
ReactLimit == 2  \* nodes below which the reacting subscriber adds one

\* --------------------------------------------------------------- constants
HistoryCap == 50   \* saveHistory: if (history.length > 50) shift()
SaveDelay == 1000  \* scheduleSave: setTimeout(..., 1000), in ms
AutoSaveInterval == 2000  \* setInterval(() => this.checkAutoSave(), 2000)

Variants == {"core", "legacy", "v10", "v11"}
HasHistory(v) == v \in {"legacy", "v10", "v11"}
HasController(v) == v \in {"v10", "v11"}

\* Ids are strings.  Generated ids (crypto.randomUUID, generateId) are
\* IdPool[1], IdPool[2], ... in the order they are issued; Ghost is an id no
\* generator ever issued; Null is JavaScript's null; "" is a falsy
\* (absent) field of a config object.
IdPool == <<"i01", "i02", "i03", "i04", "i05", "i06", "i07", "i08", "i09",
           "i10", "i11", "i12", "i13", "i14", "i15", "i16", "i17", "i18">>
Ghost == "ghost"
Null == "null"
Absent == ""

VARIABLES
    variant,            \* which kernel file is running
    nodes,              \* this.state.nodes: sequence of node records
    edges,              \* this.state.edges: sequence of edge records
    selectedId,         \* this.state.selectedId
    viewport,           \* this.state.viewport: [x, y, scale]
    history,            \* this.state.history: sequence of snapshots
    gen,                \* number of ids the generator has issued
    linkingMode,        \* kernel.linkingMode (set by the controller)
    linkingSourceId,    \* kernel.linkingSourceId
    activeRadialNodeId, \* SandboxController.activeRadialNodeId
    steps,              \* calls made so far
    lastOp,             \* the last call: [op, args, status, trace, value]
    listeners,          \* this.listeners, in registration order
    notified,           \* the subscribers the last call invoked, in order
    storage,            \* the blob under the kernel's localStorage key
    lastSaveState,      \* this.lastSaveState (legacy, v10, v11)
    pollLeft,           \* ms until the setInterval of checkAutoSave fires
    saveTimeout,        \* this.saveTimeout (core): a timer id, 0 for null
    timers,             \* the pending setTimeout timers: [id, left] records
    quiet,              \* ms since the last notification, up to SaveDelay
    phases,             \* which phase-engines file renders the page
    dom,                \* the editable elements the engines have built
    focus,              \* document.activeElement: an element, 0 for none
    registry,           \* PhaseRegistrySystem: [engines, activeEngineId]
    viewMode            \* SandboxController.viewMode: map, web or tree

Subscribers == <<listeners, notified>>
Persistence == <<storage, lastSaveState, pollLeft, saveTimeout, timers, quiet>>
Page == <<phases, dom, focus, registry, viewMode>>

vars == <<variant, nodes, edges, selectedId, viewport, history, gen,
          linkingMode, linkingSourceId, activeRadialNodeId, steps, lastOp,
          listeners, notified, storage, lastSaveState, pollLeft, saveTimeout,
          timers, quiet, phases, dom, focus, registry, viewMode>>

\* ----------------------------------------------------------------- helpers
Range(s) == {s[i] : i \in 1..Len(s)}

RECURSIVE SelectSeqBy(_, _)
\* Array.prototype.filter, with the predicate given as the set of kept values
SelectSeqBy(s, keep) ==
    IF s = <<>> THEN <<>>
    ELSE IF Head(s) \in keep THEN <<Head(s)>> \o SelectSeqBy(Tail(s), keep)
    ELSE SelectSeqBy(Tail(s), keep)

\* Array.prototype.find on nodes by id: index of the first match, 0 if none
FindNode(ns, id) ==
    IF \E i \in 1..Len(ns) : ns[i].id = id
    THEN CHOOSE i \in 1..Len(ns) :
            ns[i].id = id /\ \A j \in 1..(i - 1) : ns[j].id # id
    ELSE 0

NodeIds(ns) == {ns[i].id : i \in 1..Len(ns)}

\* the kernel as a call finds it; notifies counts the notify() calls the
\* call has made
K == [nodes |-> nodes, edges |-> edges, selectedId |-> selectedId,
      viewport |-> viewport, history |-> history, gen |-> gen,
      notifies |-> 0]

Put(k) ==
    /\ nodes' = k.nodes
    /\ edges' = k.edges
    /\ selectedId' = k.selectedId
    /\ viewport' = k.viewport
    /\ history' = k.history
    /\ gen' = k.gen


\* -------------------------------------------------------------- blueprints
\* getBlueprint(type).label, the default title of a node
BlueprintLabel(v, type) ==
    CASE v = "legacy" -> (IF type = "profile" THEN "User Profile" ELSE "Concept")
      [] v \in {"v10", "v11"} ->
            (CASE type = "profile" -> "User Profile"
               [] type = "hub" -> "Central Hub"
               [] type = "note" -> "Sticky Note"
               [] OTHER -> "Unknown Node")
      [] OTHER -> "New Node"

\* getBlueprint(type).priority (v11)
BlueprintPriority(type) ==
    CASE type = "profile" -> 0
      [] type = "hub" -> 1
      [] type = "note" -> 10
      [] OTHER -> 99

\* config.type || <default type>
DefaultType(v) ==
    IF v \in {"v10", "v11"} THEN "note" ELSE "concept"

\* this.config.spacing
spacing(v) ==
    CASE v = "v10" -> [x |-> 300, y |-> 180]
      [] v = "v11" -> [x |-> 300, y |-> 120]
      [] OTHER -> [x |-> 250, y |-> 150]

\* the browser window the kernel centres the viewport in
window == [innerWidth |-> 800, innerHeight |-> 600]

\* ------------------------------------------------------------- comparator
\* String.prototype.localeCompare on the titles the model uses: the titles
\* in collation order.
TitleOrder == <<"", "A", "B", "Central Hub", "Child", "Concept", "New Child",
                "New Node", "Root", "Sticky Note", "Unknown Node",
                "User Profile">>

TitleRank(t) == CHOOSE i \in 1..Len(TitleOrder) : TitleOrder[i] = t

\* localeCompare on ids: ids collate in the order of IdPool, Ghost last
IdRank(id) ==
    IF \E i \in 1..Len(IdPool) : IdPool[i] = id
    THEN CHOOSE i \in 1..Len(IdPool) : IdPool[i] = id
    ELSE Len(IdPool) + 1

Sign(n) == IF n < 0 THEN -1 ELSE IF n > 0 THEN 1 ELSE 0

\* priority || 99: a priority of 0 is falsy
EffectivePriority(type) ==
    IF BlueprintPriority(type) = 0 THEN 99 ELSE BlueprintPriority(type)

nodeComparator(a, b) ==
    IF EffectivePriority(a.type) # EffectivePriority(b.type)
    THEN EffectivePriority(a.type) - EffectivePriority(b.type)
    ELSE IF a.title # "" /\ b.title # ""
         THEN Sign(TitleRank(a.title) - TitleRank(b.title))
         ELSE Sign(IdRank(a.id) - IdRank(b.id))

RECURSIVE InsertByComparator(_, _)
\* one step of a stable insertion sort: e goes after every element of the
\* sorted prefix s that does not compare greater than it
InsertByComparator(s, e) ==
    IF s = <<>> THEN <<e>>
    ELSE IF nodeComparator(s[Len(s)], e) > 0
         THEN Append(InsertByComparator(SubSeq(s, 1, Len(s) - 1), e), s[Len(s)])
         ELSE Append(s, e)

RECURSIVE SortNodes(_)
\* Array.prototype.sort((a, b) => this.nodeComparator(a, b)): a stable sort
SortNodes(s) ==
    IF s = <<>> THEN <<>>
    ELSE InsertByComparator(SortNodes(SubSeq(s, 1, Len(s) - 1)), s[Len(s)])

\* ---------------------------------------------------------- graph helpers
\* edges.filter(e => e.source === nodeId).map(e => e.target)
ChildTargets(es, nodeId) ==
    LET out == SelectSeqBy(es, {e \in Range(es) : e.source = nodeId})
    IN [i \in 1..Len(out) |-> out[i].target]

RECURSIVE NodesOf(_, _)
\* ids.map(id => nodes.find(n => n.id === id)).filter(n => n)
NodesOf(ns, ids) ==
    IF ids = <<>> THEN <<>>
    ELSE IF FindNode(ns, Head(ids)) = 0 THEN NodesOf(ns, Tail(ids))
    ELSE <<ns[FindNode(ns, Head(ids))]>> \o NodesOf(ns, Tail(ids))

getChildren(k, nodeId) == NodesOf(k.nodes, ChildTargets(k.edges, nodeId))

getParents(k, nodeId) ==
    LET inc == SelectSeqBy(k.edges, {e \in Range(k.edges) : e.target = nodeId})
    IN NodesOf(k.nodes, [i \in 1..Len(inc) |-> inc[i].source])

\* nodes.filter(n => no edge has n.id as its target)
Roots(k) ==
    SelectSeqBy(k.nodes,
        {n \in Range(k.nodes) : \A e \in Range(k.edges) : e.target # n.id})


\* ----------------------------------------------------------------- history
\* saveHistory without the eviction of the oldest entry
saveHistoryNoShift(k) ==
    [k EXCEPT !.history = Append(@, [nodes |-> k.nodes, edges |-> k.edges])]

\* saveHistory(): push a deep copy (JSON) of nodes and edges, evict the
\* oldest entry past the capacity
saveHistory(k) ==
    LET pushed == Append(k.history, [nodes |-> k.nodes, edges |-> k.edges])
    IN [k EXCEPT !.history =
            IF Len(pushed) > HistoryCap THEN Tail(pushed) ELSE pushed]

\* -------------------------------------------------------------- reactivity
\* notify(): one more notification made by the call in progress.  A
\* notification invokes the subscribers and, in the core kernel, schedules
\* the save (Notifications).
notify(k) == [k EXCEPT !.notifies = @ + 1]

\* array.forEach(fn => fn(state)), n times over: the callbacks invoked
Repeated(s, n) ==
    [i \in 1..(Len(s) * n) |-> s[((i - 1) % Len(s)) + 1]]

\* ------------------------------------------------------------- persistence
\* What localStorage holds under the kernel's key.  getItem returns null
\* (Missing), the empty string (EmptyText), a text JSON.parse rejects
\* (Unparsable), or the text JSON.stringify made of a state.
Missing == [kind |-> "missing"]
EmptyText == [kind |-> "empty"]
Unparsable == [kind |-> "unparsable"]

\* JSON.stringify(this.state): the text of the state's data
Stringify(k) ==
    [kind |-> "json", nodes |-> k.nodes, edges |-> k.edges,
     selectedId |-> k.selectedId, viewport |-> k.viewport,
     history |-> k.history]

\* JSON.parse of a text JSON.stringify made: the state it was made of
Parse(blob, issued) ==
    [nodes |-> blob.nodes, edges |-> blob.edges,
     selectedId |-> blob.selectedId, viewport |-> blob.viewport,
     history |-> blob.history, gen |-> issued, notifies |-> 0]

\* loadFromStorage(): "state" when a state was read, "null" when the
\* method returns null, "SyntaxError" when JSON.parse throws to the caller.
\*   core:   try { data ? JSON.parse(data) : null } catch { return null }
\*   legacy: data ? JSON.parse(data) : null
\*   v10/11: try { JSON.parse(getItem(...)) } catch { return null }
loadFromStorage(v, blob) ==
    CASE blob.kind = "json" -> "state"
      [] blob.kind = "unparsable" /\ v = "legacy" -> "SyntaxError"
      [] OTHER -> "null"

\* clearTimeout(id)
clearTimeout(ts, id) == {t \in ts : t.id # id}

\* the id setTimeout returns: one no pending timer has
FreshTimer(ts) ==
    CHOOSE i \in 1..(Cardinality(ts) + 1) :
        /\ \A t \in ts : t.id # i
        /\ \A j \in 1..(i - 1) : \E t \in ts : t.id = j

\* setTimeout(fn, delay)
setTimeout(ts, delay) == ts \cup {[id |-> FreshTimer(ts), left |-> delay]}

\* scheduleSave() on p = [saveTimeout, timers], once the pending timer is
\* cleared
scheduleCleared(cleared) ==
    [saveTimeout |-> FreshTimer(cleared),
     timers |-> setTimeout(cleared, SaveDelay)]

\* scheduleSave(): if (this.saveTimeout) clearTimeout(this.saveTimeout);
\* this.saveTimeout = setTimeout(write, 1000)
scheduleSave(p) ==
    scheduleCleared(IF p.saveTimeout # 0
                    THEN clearTimeout(p.timers, p.saveTimeout)
                    ELSE p.timers)

RECURSIVE scheduleSaves(_, _)
\* the scheduleSave() of each of n notifications
scheduleSaves(p, n) ==
    IF n = 0 THEN p ELSE scheduleSaves(scheduleSave(p), n - 1)

\* ------------------------------------------------- layout, core and legacy
\* A layout pass carries r = [nodes, status, trace]: status is "ok" until
\* the pass throws ("RangeError": the call stack is exhausted; "TypeError":
\* c.id is read on an undefined child), and trace lists the node ids in the
\* order the traversal entered them.
RECURSIVE layoutRecursive(_, _, _, _, _, _, _), layoutEachChild(_, _, _, _, _, _, _, _)
layoutRecursive(v, r, es, nodeId, x, y, depth) ==
    IF r.status # "ok" THEN r
    ELSE IF depth > StackLimit THEN [r EXCEPT !.status = "RangeError"]
    ELSE LET i == FindNode(r.nodes, nodeId) IN
         IF i = 0 THEN r
         ELSE LET placed == [r EXCEPT !.nodes[i].x = x, !.nodes[i].y = y,
                                      !.trace = Append(@, nodeId)]
                  children == ChildTargets(es, nodeId)
                  width == (Len(children) - 1) * spacing(v).x
              IN IF Len(children) > 0
                 THEN layoutEachChild(v, placed, es, children, 1,
                                      x - (width \div 2), y + spacing(v).y,
                                      depth + 1)
                 ELSE placed

\* children.forEach(c => { this._layoutRecursive(c.id, cx, ...); cx += ... })
layoutEachChild(v, r, es, children, j, cx, y, depth) ==
    IF r.status # "ok" \/ j > Len(children) THEN r
    ELSE IF FindNode(r.nodes, children[j]) = 0
         THEN [r EXCEPT !.status = "TypeError"]
         ELSE layoutEachChild(v,
                  layoutRecursive(v, r, es, children[j], cx, y, depth),
                  es, children, j + 1, cx + spacing(v).x, y, depth)

RECURSIVE getBranchHeight(_, _, _, _), sumBranchHeights(_, _, _, _)
\* _getBranchHeight(nodeId); -1 stands for the RangeError of an exhausted
\* call stack
getBranchHeight(v, es, nodeId, depth) ==
    IF depth > StackLimit THEN -1
    ELSE LET children == ChildTargets(es, nodeId) IN
         IF Len(children) = 0 THEN spacing(v).y
         ELSE sumBranchHeights(v, es, children, depth + 1)

\* children.reduce((acc, e) => acc + this._getBranchHeight(e.target), 0)
sumBranchHeights(v, es, children, depth) ==
    IF children = <<>> THEN 0
    ELSE LET h == getBranchHeight(v, es, Head(children), depth) IN
         IF h < 0 THEN -1
         ELSE LET rest == sumBranchHeights(v, es, Tail(children), depth) IN
              IF rest < 0 THEN -1 ELSE h + rest

RECURSIVE layoutEachRoot(_, _, _, _, _, _)
\* roots.forEach(root => { _layoutRecursive(root.id, 0, startY);
\*                         startY += _getBranchHeight(root.id) + spacing.y })
layoutEachRoot(v, r, es, roots, j, startY) ==
    IF r.status # "ok" \/ j > Len(roots) THEN r
    ELSE LET laid == layoutRecursive(v, r, es, roots[j].id, 0, startY, 1)
             h == getBranchHeight(v, es, roots[j].id, 1)
         IN IF laid.status # "ok" THEN laid
            ELSE IF h < 0 THEN [laid EXCEPT !.status = "RangeError"]
            ELSE layoutEachRoot(v, laid, es, roots, j + 1,
                                startY + h + spacing(v).y)

\* autoLayout() of the core and legacy kernels: the pass's [nodes, status,
\* trace]
autoLayoutPlain(v, k) ==
    LET r0 == [nodes |-> k.nodes, status |-> "ok", trace |-> <<>>]
        roots == Roots(k)
    IN IF Len(roots) = 0 /\ Len(k.nodes) > 0
       THEN layoutRecursive(v, r0, k.edges, k.nodes[1].id, 0, 0, 1)
       ELSE layoutEachRoot(v, r0, k.edges, roots, 1, 0)


\* ------------------------------------------------------ layout, v10 and v11
\* The visited-set pass carries r = [nodes, visited, currentY, status,
\* trace].

\* a leaf placed relative to where it was: node.y += currentY
PlaceLeafRelative(v, r, i) ==
    [r EXCEPT !.nodes[i].y = @ + r.currentY, !.currentY = @ + spacing(v).y]

\* a leaf: node.y = currentY; currentY += spacing.y
PlaceLeaf(v, r, i) ==
    [r EXCEPT !.nodes[i].y = r.currentY, !.currentY = @ + spacing(v).y]

\* a parent, after its children: node.y = (firstChildY + lastChildY) / 2
PlaceParent(v, done, i, firstChildY) ==
    IF done.status # "ok" THEN done
    ELSE [done EXCEPT !.nodes[i].y =
                (firstChildY + (done.currentY - spacing(v).y)) \div 2]

\* the children of layoutNode's node, in the order they are laid out
LayoutChildren(v, ns, es, nodeId) ==
    IF v = "v11" THEN SortNodes(NodesOf(ns, ChildTargets(es, nodeId)))
    ELSE NodesOf(ns, ChildTargets(es, nodeId))

RECURSIVE layoutNode(_, _, _, _, _, _), layoutNodeEach(_, _, _, _, _, _, _), layoutFound(_, _, _, _, _, _, _, _)
layoutNode(v, r, es, nodeId, x, depth) ==
    IF r.status # "ok" THEN r
    ELSE IF depth > StackLimit THEN [r EXCEPT !.status = "RangeError"]
    ELSE IF nodeId \in r.visited THEN r
    ELSE IF FindNode(r.nodes, nodeId) = 0
         THEN [r EXCEPT !.visited = @ \cup {nodeId}]
         ELSE layoutFound(v, r, es, nodeId, x, depth,
                          FindNode(r.nodes, nodeId),
                          LayoutChildren(v, r.nodes, es, nodeId))

\* layoutNode once the node (at index i) and its children are known
layoutFound(v, r, es, nodeId, x, depth, i, children) ==
    IF Len(children) = 0
    THEN PlaceLeaf(v, [r EXCEPT !.visited = @ \cup {nodeId},
                                !.nodes[i].x = x,
                                !.trace = Append(@, nodeId)], i)
    ELSE PlaceParent(v,
            layoutNodeEach(v, [r EXCEPT !.visited = @ \cup {nodeId},
                                        !.nodes[i].x = x,
                                        !.trace = Append(@, nodeId)],
                           es, children, 1, x + spacing(v).x, depth + 1),
            i, r.currentY)

\* children.forEach(child => layoutNode(child.id, x + spacing.x))
layoutNodeEach(v, r, es, children, j, x, depth) ==
    IF r.status # "ok" \/ j > Len(children) THEN r
    ELSE layoutNodeEach(v, layoutNode(v, r, es, children[j].id, x, depth),
                        es, children, j + 1, x, depth)

\* the root objects of the pass, each with its index in nodes: nodes with
\* no incoming edge, or the first node when there is none
RootIndexes(k) ==
    IF \E i \in 1..Len(k.nodes) :
            \A e \in Range(k.edges) : e.target # k.nodes[i].id
    THEN SelectSeqBy([i \in 1..Len(k.nodes) |-> i],
            {i \in 1..Len(k.nodes) :
                \A e \in Range(k.edges) : e.target # k.nodes[i].id})
    ELSE IF Len(k.nodes) > 0 THEN <<1>> ELSE <<>>

RootEntries(k) ==
    [j \in 1..Len(RootIndexes(k)) |->
        [ix |-> RootIndexes(k)[j],
         id |-> k.nodes[RootIndexes(k)[j]].id,
         title |-> k.nodes[RootIndexes(k)[j]].title,
         type |-> k.nodes[RootIndexes(k)[j]].type]]

\* roots, in the order the pass takes them (v11 sorts them)
OrderedRoots(v, k) ==
    IF v = "v11" THEN SortNodes(RootEntries(k)) ELSE RootEntries(k)

\* roots.forEach(root => layoutNode(root.id, 0))
autoLayoutVisited(v, k, roots) ==
    layoutNodeEach(v,
        [nodes |-> k.nodes, visited |-> {}, currentY |-> 0,
         status |-> "ok", trace |-> <<>>],
        k.edges, roots, 1, 0, 1)

\* centerOnNode(node): the node is put at the centre of the screen
centerOnNode(k, node) ==
    notify([k EXCEPT !.viewport.x =
                  (window.innerWidth \div 2) - (node.x * k.viewport.scale),
              !.viewport.y =
                  (window.innerHeight \div 2) - (node.y * k.viewport.scale)])

\* the viewport step that ends autoLayout in v10 and v11, and the
\* notification: v10 always notifies; v11 notifies through centerOnNode,
\* or directly when the graph is empty, and not at all when focusNodeId
\* names no node
CentreView(v, laid, roots, focusNodeId) ==
    IF v = "v10"
    THEN notify(IF Len(roots) > 0
                THEN [laid EXCEPT
                        !.viewport.x = (window.innerWidth \div 2)
                                       - laid.nodes[roots[1].ix].x,
                        !.viewport.y = (window.innerHeight \div 2)
                                       - laid.nodes[roots[1].ix].y]
                ELSE laid)
    ELSE IF focusNodeId \notin {Null, Absent}
         THEN IF FindNode(laid.nodes, focusNodeId) # 0
              THEN centerOnNode(laid,
                     laid.nodes[FindNode(laid.nodes, focusNodeId)])
              ELSE laid
         ELSE IF Len(roots) > 0
              THEN centerOnNode(laid, laid.nodes[roots[1].ix])
              ELSE notify(laid)

\* ------------------------------------------------------------- autoLayout
\* what a call returns: typeof the value, and the id it is or carries
Returned(type, id) == [type |-> type, id |-> id]

Undefined == Returned("undefined", "")

\* The result of a call is [k, status, trace, value].  A pass that throws
\* leaves the positions it had already written and skips what follows it,
\* the notification included.
LayoutResult(v, k, roots, r, focusNodeId) ==
    [k |-> IF r.status # "ok" THEN [k EXCEPT !.nodes = r.nodes]
           ELSE IF v \in {"core", "legacy"}
                THEN notify([k EXCEPT !.nodes = r.nodes])
                ELSE CentreView(v, [k EXCEPT !.nodes = r.nodes], roots,
                                focusNodeId),
     status |-> r.status,
     trace |-> r.trace,
     value |-> Undefined]

\* autoLayout of v10 (after its saveHistory) and v11
autoLayoutCentred(v, k, roots, focusNodeId) ==
    LayoutResult(v, k, roots, autoLayoutVisited(v, k, roots), focusNodeId)

autoLayout(v, k, focusNodeId) ==
    CASE v \in {"core", "legacy"} ->
            LayoutResult(v, k, <<>>, autoLayoutPlain(v, k), focusNodeId)
      [] v = "v10" ->
            autoLayoutCentred(v, saveHistory(k), OrderedRoots(v, k),
                              focusNodeId)
      [] OTHER ->
            autoLayoutCentred(v, k, OrderedRoots(v, k), focusNodeId)

\* --------------------------------------------------------- kernel methods
\* Every method yields a result [k, status, trace, value]: the kernel after
\* the call, "ok" or the error it threw, the layout pass's trace and the
\* value returned.
Ok(k) == [k |-> k, status |-> "ok", trace |-> <<>>, value |-> Undefined]

\* a call that returns value
Return(k, value) == [Ok(k) EXCEPT !.value = value]

\* a call that throws
Throw(k, error) == [Ok(k) EXCEPT !.status = error]

\* crypto.randomUUID() / generateId(): an id no earlier call was given
NewId(k) == IdPool[k.gen + 1]

Issue(k) == [k EXCEPT !.gen = @ + 1]

\* a || b on strings
OrElse(a, b) == IF a = Absent THEN b ELSE a

\* the node object addNode builds from its config [id, title, type]
NewNode(v, k, cfg) ==
    LET type == OrElse(cfg.type, DefaultType(v))
    IN [id |-> IF v \in {"v10", "v11"} THEN OrElse(cfg.id, NewId(k))
               ELSE NewId(k),
        title |-> OrElse(cfg.title, BlueprintLabel(v, type)),
        type |-> type,
        x |-> 0,
        y |-> 0]

addNode(v, k, cfg) ==
    LET node == NewNode(v, k, cfg)
        issued == IF node.id = NewId(k) THEN Issue(k) ELSE k
    IN CASE v = "core" ->
              Return(notify([issued EXCEPT !.nodes = Append(@, node),
                                           !.selectedId = node.id]),
                     Returned("string", node.id))
         [] v = "legacy" ->
              Return(notify(saveHistory(
                        [issued EXCEPT !.nodes = Append(@, node),
                                       !.selectedId = node.id])),
                     Returned("string", node.id))
         [] v = "v10" ->
              Return(notify([saveHistory(issued) EXCEPT
                                !.nodes = Append(@, node)]),
                     Returned("object", node.id))
         [] OTHER ->
              [autoLayout(v, [saveHistory(issued) EXCEPT
                                 !.nodes = Append(@, node)], node.id)
                  EXCEPT !.value = Returned("object", node.id)]

\* addNode() with no argument: core and legacy default the config to {};
\* v10 and v11 push the snapshot and then read nodeData.id of undefined
addNodeOmitted(v, k) ==
    IF v \in {"core", "legacy"}
    THEN addNode(v, k, [id |-> Absent, title |-> Absent, type |-> Absent])
    ELSE Throw(saveHistory(k), "TypeError")

\* nodes.filter(n => n.id !== id)
WithoutNode(ns, id) == SelectSeqBy(ns, {n \in Range(ns) : n.id # id})

\* the cascade with || in place of &&: an edge goes only when both of its
\* ends are the deleted node
WithoutEdgesOfBothEnds(es, id) ==
    SelectSeqBy(es, {e \in Range(es) : e.source # id \/ e.target # id})

\* edges.filter(e => e.source !== id && e.target !== id)
WithoutEdgesOf(es, id) ==
    SelectSeqBy(es, {e \in Range(es) : e.source # id /\ e.target # id})

\* what deleteNode leaves in selectedId
SelectionAfterDelete(v, sel, id) ==
    IF v = "legacy" THEN Null
    ELSE IF sel = id THEN Null ELSE sel

deleteNode(v, k, id) ==
    LET cut(kk) == [kk EXCEPT
                      !.nodes = WithoutNode(kk.nodes, id),
                      !.edges = WithoutEdgesOf(kk.edges, id),
                      !.selectedId = SelectionAfterDelete(v, kk.selectedId, id)]
    IN CASE v = "core" -> Ok(notify(cut(k)))
         [] v = "legacy" -> Ok(notify(saveHistory(cut(k))))
         [] v = "v10" -> Ok(notify(cut(saveHistory(k))))
         [] OTHER -> autoLayout(v, cut(saveHistory(k)), Null)

\* addEdge without its first early return (source === target)
EdgeRefusedDuplicateOnly(k, source, target) ==
    \E e \in Range(k.edges) : e.source = source /\ e.target = target

\* addEdge without its second early return (the pair is already linked)
EdgeRefusedSelfLoopOnly(k, source, target) ==
    source = target

\* addEdge's early returns: a self-loop, or an edge of the same ordered pair
EdgeRefused(k, source, target) ==
    \/ source = target
    \/ \E e \in Range(k.edges) : e.source = source /\ e.target = target

addEdge(v, k, source, target) ==
    IF EdgeRefused(k, source, target) THEN Ok(k)
    ELSE LET edge == [id |-> NewId(k), source |-> source, target |-> target]
             push(kk) == [Issue(kk) EXCEPT !.edges = Append(@, edge)]
         IN CASE v = "core" -> Ok(notify(push(k)))
              [] v = "legacy" -> Ok(notify(saveHistory(push(k))))
              [] v = "v10" -> Ok(notify(push(saveHistory(k))))
              [] OTHER -> autoLayout(v, push(saveHistory(k)), target)

\* deleteEdge(id), v10 and v11
deleteEdge(v, k, id) ==
    LET saved == saveHistory(k)
    IN Ok(notify([saved EXCEPT !.edges =
              SelectSeqBy(saved.edges, {e \in Range(saved.edges) : e.id # id})]))

\* selectNode(id), v10 and v11
selectNode(v, k, id) == Ok(notify([k EXCEPT !.selectedId = id]))

\* an assignment that replaces the node: the fields updates does not name
\* are reset
AssignReplacing(node, updates) ==
    [f \in DOMAIN node |->
        IF f \in DOMAIN updates THEN updates[f]
        ELSE IF f = "id" THEN node[f]
        ELSE IF f \in {"x", "y"} THEN 0 ELSE ""]

\* Object.assign(node, updates): updates is a record of some node fields
Assign(node, updates) ==
    [f \in DOMAIN node |->
        IF f \in DOMAIN updates THEN updates[f] ELSE node[f]]

\* updates.title || updates.content || updates.type
TouchesText(updates) ==
    \E f \in DOMAIN updates \cap {"title", "content", "type"} :
        updates[f] # Absent

updateNode(v, k, id, updates) ==
    LET i == FindNode(k.nodes, id) IN
    IF i = 0 THEN Ok(k)
    ELSE LET saved == IF v \in {"v10", "v11"} /\ TouchesText(updates)
                      THEN saveHistory(k) ELSE k
         IN Ok(notify([saved EXCEPT !.nodes[i] = Assign(@, updates)]))

\* undo(): legacy, v10 and v11 (the core kernel has none)
undo(v, k) ==
    IF v = "legacy"
    THEN IF Len(k.history) < 2 THEN Ok(k)
         ELSE LET popped == SubSeq(k.history, 1, Len(k.history) - 1)
                  prev == popped[Len(popped)]
              IN Ok(notify([k EXCEPT !.history = popped,
                                     !.nodes = prev.nodes,
                                     !.edges = prev.edges]))
    ELSE IF Len(k.history) = 0 THEN Ok(k)
         ELSE LET prev == k.history[Len(k.history)]
              IN Ok(notify([k EXCEPT
                       !.history = SubSeq(k.history, 1, Len(k.history) - 1),
                       !.nodes = prev.nodes, !.edges = prev.edges,
                       !.selectedId = Null]))


\* ------------------------------------------------- text engine (outliner)
\* the stack of parseTextToMap: stack[d + 1] is the id last seen at depth d,
\* Absent for a hole of the sparse array
StackAt(stack, d) == IF d + 1 <= Len(stack) THEN stack[d + 1] ELSE Absent

\* stack[depth - 1], or the nearest entry below it
ParentOf(stack, depth) ==
    IF \E d \in 0..(depth - 1) : StackAt(stack, d) # Absent
    THEN StackAt(stack, CHOOSE d \in 0..(depth - 1) :
            /\ StackAt(stack, d) # Absent
            /\ \A e \in (d + 1)..(depth - 1) : StackAt(stack, e) = Absent)
    ELSE Absent

\* stack[depth] = {id, depth}; stack.splice(depth + 1)
Restack(stack, depth, id) ==
    [d \in 1..(depth + 1) |->
        IF d = depth + 1 THEN id ELSE StackAt(stack, d - 1)]

\* if (depth > 0 && parent) this.kernel.addEdge(parent.id, id)
LinkToParent(v, added, stack, depth) ==
    IF depth > 0 /\ ParentOf(stack, depth) # Absent
    THEN addEdge(v, added, ParentOf(stack, depth),
                 added.nodes[Len(added.nodes)].id).k
    ELSE added

RECURSIVE parseLines(_, _, _, _, _), parseLine(_, _, _, _, _)
\* lines.forEach(...) of TextPhaseEngine.parseTextToMap: a line is
\* [depth, title]
parseLines(v, k, lines, j, stack) ==
    IF j > Len(lines) THEN k
    ELSE parseLine(v,
            addNode(v, k, [id |-> Absent, title |-> lines[j].title,
                           type |-> Absent]).k,
            lines, j, stack)

\* the rest of one line's work, once its node is added
parseLine(v, added, lines, j, stack) ==
    parseLines(v, LinkToParent(v, added, stack, lines[j].depth), lines, j + 1,
               Restack(stack, lines[j].depth, added.nodes[Len(added.nodes)].id))

\* the statement after a call that may throw: this.kernel.notify()
ThenNotify(res) ==
    IF res.status = "ok" THEN [res EXCEPT !.k = notify(@)] ELSE res

\* parseTextToMap(text): clear the graph, rebuild it from the lines, lay it
\* out, notify
parseTextToMap(v, k, lines) ==
    ThenNotify(autoLayout(v,
        parseLines(v, [k EXCEPT !.nodes = <<>>, !.edges = <<>>], lines, 1, <<>>),
        Null))

\* ------------------------------------------------------------------- page
\* The surfaces of the page.  dom.fields are the editable elements of the
\* inspector panel and dom.rows the inputs of the outliner: el is the
\* element's identity (elements are numbered in the order
\* document.createElement makes them, dom.made so far), value is what it
\* displays, node the id its oninput / onchange handler was built for.
\* dom.cleared tells that a render of the last call emptied a container
\* (innerHTML = '') to build it anew.  focus is the el of
\* document.activeElement, 0 if that is no field.  A page is the record
\* [dom, focus].
EmptyDom ==
    [lastRenderedId |-> Null, fields |-> <<>>, rows |-> <<>>, made |-> 0,
     cleared |-> FALSE]

Field(name, el, value, node) ==
    [name |-> name, el |-> el, value |-> value, node |-> node]

Row(node, el, value) == [node |-> node, el |-> el, value |-> value]

\* the element is in the document
InDocument(d, el) == \E i \in 1..Len(d.fields) : d.fields[i].el = el

\* the place of the element among dom.fields
FieldAt(d, el) == CHOOSE i \in 1..Len(d.fields) : d.fields[i].el = el

\* the inspector showing "Select a node ..." in place of its fields; the
\* focus of a removed element is lost
Placeholder(d) ==
    [dom |-> [d EXCEPT !.fields = <<>>, !.lastRenderedId = Null], focus |-> 0]

\* the registries: the constructor's state, and init(kernel) registering
\* the engines of the file
PhaseRegistrySystem(file) ==
    [engines |-> <<>>,
     activeEngineId |-> CASE file = "v11" -> "universal"
                          [] file = "part_000" -> Null
                          [] file = "part_003" -> "map"
                          [] OTHER -> Null]

register(reg, engine) == [reg EXCEPT !.engines = Append(@, engine)]

init(file, reg) ==
    CASE file = "v11" ->
           register(register(register(reg, "universal"), "web"), "tree")
      [] file = "v12" ->
           register(register(register(reg, "inspector"), "web"), "tree")
      [] file = "part_000" -> register(register(reg, "text"), "web")
      [] file = "part_003" ->
           register(register(register(reg, "text"), "web"), "universal")
      [] OTHER -> reg

\* setActive(id): part_000 looks the engine up first, the others store id
setActive(file, reg, id) ==
    IF file = "part_000" /\ id \notin Range(reg.engines) THEN reg
    ELSE [reg EXCEPT !.activeEngineId = id]

\* getActive(): an engine is found
getActive(reg) == reg.activeEngineId \in Range(reg.engines)

\* container.innerHTML = '': every element of the container goes
Emptied(d) ==
    [d EXCEPT !.fields = <<>>, !.rows = <<>>, !.lastRenderedId = Null,
              !.cleared = TRUE]

\* UniversalPhaseEngine.render of stable/v11: new elements holding the
\* values of the node selected
UniversalRender(k, d) ==
    IF FindNode(k.nodes, k.selectedId) = 0 THEN d
    ELSE [d EXCEPT
            !.fields =
               <<Field("title", d.made + 1,
                       k.nodes[FindNode(k.nodes, k.selectedId)].title,
                       k.selectedId),
                 Field("type", d.made + 2,
                       k.nodes[FindNode(k.nodes, k.selectedId)].type,
                       k.selectedId)>>,
            !.made = d.made + 2]

\* TreePhaseEngine.render of stable/v11: an input for the target node and
\* one for each of its children, all made anew
TreeTarget(k) ==
    IF k.selectedId # Null THEN k.selectedId
    ELSE IF k.nodes # <<>> THEN k.nodes[1].id
    ELSE Null

TreeRender(k, d) ==
    [d EXCEPT
       !.rows =
          [i \in 1..Len(NodesOf(k.nodes, <<TreeTarget(k)>>)
                        \o getChildren(k, TreeTarget(k))) |->
              Row((NodesOf(k.nodes, <<TreeTarget(k)>>)
                     \o getChildren(k, TreeTarget(k)))[i].id,
                  d.made + i,
                  (NodesOf(k.nodes, <<TreeTarget(k)>>)
                     \o getChildren(k, TreeTarget(k)))[i].title)],
       !.made = d.made + Len(NodesOf(k.nodes, <<TreeTarget(k)>>)
                             \o getChildren(k, TreeTarget(k)))]

\* phase engines of stable/v11: renderActive empties the container when
\* the active engine is found, then the engine renders into it (the web
\* engine makes no editable element)
renderActive(reg, k, p) ==
    IF ~getActive(reg) THEN p
    ELSE [dom |-> CASE reg.activeEngineId = "universal" ->
                         UniversalRender(k, Emptied(p.dom))
                    [] reg.activeEngineId = "tree" ->
                         TreeRender(k, Emptied(p.dom))
                    [] OTHER -> Emptied(p.dom),
          focus |-> 0]

\* phase engines of stable/v12, UniversalPhaseEngine.buildDOM: the
\* container is emptied and a new input and a new select are made
buildDOM(d, node) ==
    [d EXCEPT !.lastRenderedId = node.id,
              !.fields = <<Field("title", d.made + 1, "", node.id),
                           Field("type", d.made + 2, "note", node.id)>>,
              !.made = d.made + 2,
              !.cleared = TRUE]

\* setVal of updateValues: an element that is not focused takes val; a
\* SELECT takes val whenever it shows something else, focused or not
setVal(field, val, focused) ==
    [field EXCEPT !.value =
        IF focused # field.el THEN val
        ELSE IF field.name = "type" /\ field.value # val THEN val
        ELSE field.value]

updateValues(d, node, focused) ==
    [d EXCEPT !.fields =
        [i \in 1..Len(d.fields) |->
            setVal(d.fields[i], node[d.fields[i].name], focused)]]

\* UniversalPhaseEngine.render of stable/v12 on the node selected
renderNode(node, p) ==
    IF p.dom.lastRenderedId # node.id
    THEN [dom |-> updateValues(buildDOM(p.dom, node), node, 0), focus |-> 0]
    ELSE [dom |-> updateValues(p.dom, node, p.focus), focus |-> p.focus]

render(k, p) ==
    IF FindNode(k.nodes, k.selectedId) = 0 THEN Placeholder(p.dom)
    ELSE renderNode(k.nodes[FindNode(k.nodes, k.selectedId)], p)

\* a call of a recursive walk: the node it is about and its depth
Visit(id, depth) == [node |-> id, depth |-> depth]

\* the call the engine's stack has no frame for
Overflow == Visit("RangeError", StackLimit + 1)

Overflows(vs) == \E i \in 1..Len(vs) : vs[i] = Overflow

\* the calls made before the exception unwinds the walk
UpToThrow(vs) ==
    IF Overflows(vs)
    THEN SubSeq(vs, 1, (CHOOSE i \in 1..Len(vs) :
                           /\ vs[i] = Overflow
                           /\ \A j \in 1..(i - 1) : vs[j] # Overflow) - 1)
    ELSE vs

\* TreePhaseEngine.render of stable/v12.  renderTree(nodeId, depth): the
\* calls the engine makes from nodeId, in order; the walk keeps no visited
\* set, so on a cycle it goes on until the stack is used up
RECURSIVE renderTree(_, _, _)
RECURSIVE renderTrees(_, _, _)
renderTree(k, nodeId, depth) ==
    IF depth > StackLimit THEN <<Overflow>>
    ELSE IF FindNode(k.nodes, nodeId) = 0 THEN <<>>
    ELSE <<Visit(nodeId, depth)>>
           \o renderTrees(k, SortNodes(getChildren(k, nodeId)), depth + 1)

\* kids.forEach(k => renderTree(k.id, depth)), roots.forEach likewise
renderTrees(k, ns, depth) ==
    IF ns = <<>> THEN <<>>
    ELSE renderTree(k, Head(ns).id, depth) \o renderTrees(k, Tail(ns), depth)

\* the roots the outliner starts from
TreeRoots(k) ==
    IF Roots(k) = <<>> /\ k.nodes # <<>> THEN <<k.nodes[1]>> ELSE Roots(k)

\* the place of the row tree-row-<id> in the document, 0 if there is none
RowAt(rows, id) ==
    IF \E i \in 1..Len(rows) : rows[i].node = id
    THEN CHOOSE i \in 1..Len(rows) :
            /\ rows[i].node = id
            /\ \A j \in 1..(i - 1) : rows[j].node # id
    ELSE 0

\* a row of the outliner: row.style.paddingLeft is depth * 20 px
TreeRow(node, el, value, depth) ==
    [node |-> node, el |-> el, value |-> value, depth |-> depth]

\* ensureRow(node, depth): the row of the node is looked up by its id; it is
\* made, with the indentation of depth, and appended only if there is none;
\* its input takes the node's title
ensureRow(d, node, depth) ==
    IF RowAt(d.rows, node.id) = 0
    THEN [d EXCEPT !.rows = Append(@, TreeRow(node.id, d.made + 1,
                                              node.title, depth)),
                   !.made = d.made + 1]
    ELSE [d EXCEPT !.rows[RowAt(d.rows, node.id)].value = node.title]

RECURSIVE ensureRows(_, _, _)
ensureRows(d, k, vs) ==
    IF vs = <<>> THEN d
    ELSE ensureRows(ensureRow(d, k.nodes[FindNode(k.nodes, Head(vs).node)],
                              Head(vs).depth),
                    k, Tail(vs))

\* both branches of render: roots.forEach(r => renderTree(r.id, 0))
TreeWalk(k) == renderTrees(k, TreeRoots(k), 0)

TreePhaseEngineRender(k, d) == ensureRows(d, k, UpToThrow(TreeWalk(k)))

\* WebPhaseEngine.generateHTML: render(node) renders the kids of the node,
\* in the order of the edges, before it composes its own text; it keeps no
\* visited set either
RECURSIVE generateHTML(_, _, _)
RECURSIVE generateKids(_, _, _)
generateHTML(k, nodeId, depth) ==
    IF depth > StackLimit THEN <<Overflow>>
    ELSE <<Visit(nodeId, depth)>>
           \o generateKids(k, getChildren(k, nodeId), depth + 1)

generateKids(k, ns, depth) ==
    IF ns = <<>> THEN <<>>
    ELSE generateHTML(k, Head(ns).id, depth) \o generateKids(k, Tail(ns), depth)

\* the root of the web preview:
\* state.nodes.find(n => n.type === 'web-root') || state.nodes[0]
WebRoot(k) ==
    IF \E i \in 1..Len(k.nodes) : k.nodes[i].type = "web-root"
    THEN k.nodes[CHOOSE i \in 1..Len(k.nodes) :
                    /\ k.nodes[i].type = "web-root"
                    /\ \A j \in 1..(i - 1) : k.nodes[j].type # "web-root"]
    ELSE k.nodes[1]

WebWalk(k) ==
    IF k.nodes = <<>> THEN <<>> ELSE generateHTML(k, WebRoot(k).id, 0)

\* the walk the view of the mode makes when it renders the state
ViewWalk(mode, k) ==
    CASE mode = "tree" -> TreeWalk(k)
      [] mode = "web" -> WebWalk(k)
      [] OTHER -> <<>>

\* SandboxController.render of part_001: the sidebar's inspector, then the
\* view: renderMap empties the world layer and draws every node anew, the
\* other modes go to their engine (the web engine keeps its toolbar and
\* frame and makes no editable element)
renderView(mode, k, p) ==
    CASE mode = "map" -> [p EXCEPT !.dom.cleared = TRUE]
      [] mode = "tree" -> [p EXCEPT !.dom = TreePhaseEngineRender(k, p.dom)]
      [] OTHER -> p

\* one render of the page by the controller of the phase-engines file
PageRender(ph, reg, mode, k, p) ==
    IF ph = "v11" THEN renderActive(reg, k, p)
    ELSE renderView(mode, k, render(k, p))

\* the controller's subscriber renders the page at each of the n
\* notifications of a call
RECURSIVE Renders(_, _, _, _)
Renders(ph, k, p, n) ==
    IF n = 0 THEN p
    ELSE Renders(ph, k, PageRender(ph, registry, viewMode, k, p), n - 1)

\* the page before the renders of a call: nothing emptied yet
AtCall(d, f) == [dom |-> [d EXCEPT !.cleared = FALSE], focus |-> f]

\* the render a notification starts runs out of stack: the RangeError goes
\* up through notify() to the caller of the kernel
RenderThrows(k, n) ==
    /\ n > 0
    /\ phases = "v12"
    /\ Overflows(ViewWalk(viewMode, k))

Rendered(k, n) ==
    /\ phases' = phases
    /\ registry' = registry
    /\ viewMode' = viewMode
    /\ dom' = IF phases \notin {"v11", "v12"} THEN dom
              ELSE Renders(phases, k, AtCall(dom, focus), n).dom
    /\ focus' = IF phases \notin {"v11", "v12"} THEN focus
                ELSE Renders(phases, k, AtCall(dom, focus), n).focus

\* ----------------------------------------------------------- input domains
\* the ids a caller may pass: every id in the graph, and one that is not
ArgIds == NodeIds(nodes) \cup {Ghost}

Configs ==
    {[id |-> i, title |-> c[1], type |-> c[2]] :
        i \in (IF variant \in {"v10", "v11"} THEN ArgIds \cup {Absent}
               ELSE {Absent}),
        c \in {<<Absent, Absent>>, <<"B", "hub">>}}

Updates == {[title |-> "A"], [x |-> 40, y |-> 30]}

Texts ==
    {<<>>,
     <<[depth |-> 0, title |-> "Root"]>>,
     <<[depth |-> 0, title |-> "Root"], [depth |-> 1, title |-> "Child"]>>}

\* ------------------------------------------------------------------ state
EmptyViewport(v) ==
    IF v \in {"v10", "v11"}
    THEN [x |-> window.innerWidth \div 2, y |-> window.innerHeight \div 2,
          scale |-> 1]
    ELSE [x |-> 0, y |-> 0, scale |-> 1]

\* the kernel the constructor builds when loadFromStorage() returns null
EmptyKernel(v) ==
    [nodes |-> <<>>, edges |-> <<>>, selectedId |-> Null,
     viewport |-> EmptyViewport(v), history |-> <<>>, gen |-> 0,
     notifies |-> 0]

\* the record of the constructor's run
Constructed ==
    [op |-> "constructor", args |-> <<"missing", "load">>, status |-> "ok",
     trace |-> <<>>, value |-> Undefined]

\* this.listeners = []
NoSubscribers ==
    /\ listeners = <<>>
    /\ notified = <<>>

\* nothing in storage, and the timers as the constructor leaves them: the
\* autosave interval of legacy, v10 and v11 running, no save scheduled
NothingStored ==
    /\ storage = Missing
    /\ lastSaveState = IF variant = "core" THEN Missing
                       ELSE Stringify(EmptyKernel(variant))
    /\ pollLeft = IF variant = "core" THEN 0 ELSE AutoSaveInterval
    /\ saveTimeout = 0
    /\ timers = {}
    /\ quiet = SaveDelay

\* no phase engine is rendering
NoPage ==
    /\ phases = "none"
    /\ dom = EmptyDom
    /\ focus = 0
    /\ registry = PhaseRegistrySystem("none")
    /\ viewMode = "map"

\* the state after construction with nothing in storage
Init ==
    /\ variant \in Variants
    /\ nodes = <<>>
    /\ edges = <<>>
    /\ selectedId = Null
    /\ viewport = EmptyViewport(variant)
    /\ history = <<>>
    /\ gen = 0
    /\ linkingMode = FALSE
    /\ linkingSourceId = Null
    /\ activeRadialNodeId = Null
    /\ steps = 0
    /\ lastOp = Constructed
    /\ NoSubscribers
    /\ NothingStored
    /\ NoPage

\* the page holds a kernel: the constructor's last run returned
Running == ~(lastOp.op = "constructor" /\ lastOp.status # "ok")

\* the effects of the n notifications of a call: every subscriber is
\* invoked at each, and the core kernel's notify() reschedules the save
Notifications(n) ==
    /\ notified' = Repeated(listeners, n)
    /\ quiet' = IF n > 0 THEN 0 ELSE quiet
    /\ saveTimeout' =
          IF variant = "core"
          THEN scheduleSaves([saveTimeout |-> saveTimeout,
                              timers |-> timers], n).saveTimeout
          ELSE saveTimeout
    /\ timers' =
          IF variant = "core"
          THEN scheduleSaves([saveTimeout |-> saveTimeout,
                              timers |-> timers], n).timers
          ELSE timers

\* one call: the kernel becomes res.k, its notifications take effect and
\* the call is recorded
Call(op, args, res) ==
    /\ steps < MaxSteps
    /\ K.gen + 3 <= Len(IdPool)
    /\ Running
    /\ Put(res.k)
    /\ steps' = steps + 1
    /\ lastOp' = [op |-> op, args |-> args,
                  status |-> IF RenderThrows(res.k, res.k.notifies)
                             THEN "RangeError" ELSE res.status,
                  trace |-> res.trace, value |-> res.value]
    /\ Notifications(res.k.notifies)
    /\ Rendered(res.k, res.k.notifies)
    /\ UNCHANGED <<variant, listeners, storage, lastSaveState, pollLeft>>

Controller == <<linkingMode, linkingSourceId, activeRadialNodeId>>

AddNodeCall ==
    \E cfg \in Configs :
        /\ Len(nodes) < MaxNodes
        /\ Call("addNode", <<cfg.id, cfg.title, cfg.type>>,
                addNode(variant, K, cfg))
        /\ UNCHANGED Controller

AddEdgeCall ==
    \E s \in ArgIds, t \in ArgIds :
        /\ Call("addEdge", <<s, t>>, addEdge(variant, K, s, t))
        /\ UNCHANGED Controller

DeleteNodeCall ==
    \E id \in ArgIds :
        /\ Call("deleteNode", <<id>>, deleteNode(variant, K, id))
        /\ UNCHANGED Controller

UpdateNodeCall ==
    \E id \in ArgIds, u \in Updates :
        /\ Call("updateNode", <<id, u>>, updateNode(variant, K, id, u))
        /\ UNCHANGED Controller

AutoLayoutCall ==
    /\ Call("autoLayout", <<>>, autoLayout(variant, K, Null))
    /\ UNCHANGED Controller

UndoCall ==
    /\ HasHistory(variant)
    /\ Call("undo", <<>>, undo(variant, K))
    /\ UNCHANGED Controller

DeleteEdgeCall ==
    /\ variant \in {"v10", "v11"}
    /\ \E id \in {e.id : e \in Range(edges)} \cup {Ghost} :
          Call("deleteEdge", <<id>>, deleteEdge(variant, K, id))
    /\ UNCHANGED Controller

SelectNodeCall ==
    /\ variant \in {"v10", "v11"}
    /\ \E id \in ArgIds \cup {Null} :
          Call("selectNode", <<id>>, selectNode(variant, K, id))
    /\ UNCHANGED Controller

\* a presentation engine's click handler: state.selectedId = node.id, for a
\* node the engine has rendered
WidgetClick ==
    /\ variant \in {"core", "legacy"}
    /\ \E id \in NodeIds(nodes) :
          Call("widgetClick", <<id>>,
               Ok(notify([K EXCEPT !.selectedId = id])))
    /\ UNCHANGED Controller

\* the outliner's Apply Changes button
ParseTextCall ==
    /\ variant = "legacy"
    /\ \E text \in Texts :
          Call("parseTextToMap", <<>>,
               parseTextToMap(variant, K, text))
    /\ UNCHANGED Controller


\* ------------------------------------------- sandbox controller (v10, v11)
\* mouseenter on a rendered node: showRadialMenu(node, false)
ShowRadialMenu ==
    /\ HasController(variant)
    /\ steps < MaxSteps
    /\ \E id \in NodeIds(nodes) :
          /\ activeRadialNodeId' = id
          /\ lastOp' = [op |-> "showRadialMenu", args |-> <<id>>,
                        status |-> "ok", trace |-> <<>>, value |-> Undefined]
    /\ steps' = steps + 1
    /\ notified' = <<>>
    /\ UNCHANGED <<variant, nodes, edges, selectedId, viewport, history, gen,
                   linkingMode, linkingSourceId, listeners>>
    /\ UNCHANGED <<Persistence, Page>>

\* the radial menu's link button; the menu is on screen while
\* activeRadialNodeId is set
ActionLink ==
    /\ HasController(variant)
    /\ steps < MaxSteps
    /\ activeRadialNodeId # Null
    /\ linkingMode' = TRUE
    /\ linkingSourceId' = activeRadialNodeId
    /\ activeRadialNodeId' = Null
    /\ lastOp' = [op |-> "actionLink", args |-> <<activeRadialNodeId>>,
                  status |-> "ok", trace |-> <<>>, value |-> Undefined]
    /\ steps' = steps + 1
    /\ notified' = <<>>
    /\ UNCHANGED <<variant, nodes, edges, selectedId, viewport, history, gen,
                   listeners>>
    /\ UNCHANGED <<Persistence, Page>>

\* el.onclick of a rendered node: in linking mode the edge is added and the
\* mode left, otherwise the node is selected and its menu pinned
NodeClick ==
    /\ HasController(variant)
    /\ \E id \in NodeIds(nodes) :
          IF linkingMode
          THEN /\ Call("addEdge", <<linkingSourceId, id>>,
                       addEdge(variant, K, linkingSourceId, id))
               /\ linkingMode' = FALSE
               /\ UNCHANGED <<linkingSourceId, activeRadialNodeId>>
          ELSE /\ Call("selectNode", <<id>>, selectNode(variant, K, id))
               /\ activeRadialNodeId' = id
               /\ UNCHANGED <<linkingMode, linkingSourceId>>

\* the toolbar's delete button: deletes the selected node, if any
TriggerDelete ==
    /\ HasController(variant)
    /\ selectedId # Null
    /\ Call("deleteNode", <<selectedId>>, deleteNode(variant, K, selectedId))
    /\ UNCHANGED Controller

\* ---------------------------------------------------------- specification
Next ==
    \/ AddNodeCall
    \/ AddEdgeCall
    \/ DeleteNodeCall
    \/ UpdateNodeCall
    \/ AutoLayoutCall
    \/ UndoCall
    \/ DeleteEdgeCall
    \/ SelectNodeCall
    \/ WidgetClick
    \/ ParseTextCall
    \/ ShowRadialMenu
    \/ ActionLink
    \/ NodeClick
    \/ TriggerDelete

Spec == Init /\ [][Next]_vars

\* ------------------------------------------------- specification: history
\* The history stack near and at its capacity.  The kernel has been called
\* with deleteNode of an id that is not in the graph until the stack held n
\* entries: each such call pushes a snapshot of the empty graph and changes
\* nothing else.
RECURSIVE IdleDeletes(_, _, _)
IdleDeletes(v, k, n) ==
    IF Len(k.history) >= n THEN k
    ELSE IdleDeletes(v, deleteNode(v, k, Ghost).k, n)

HistoryFills == {HistoryCap - 2, HistoryCap}

KernelIs(k) ==
    /\ nodes = k.nodes
    /\ edges = k.edges
    /\ selectedId = k.selectedId
    /\ viewport = k.viewport
    /\ history = k.history
    /\ gen = k.gen

InitHistory ==
    /\ variant \in {v \in Variants : HasHistory(v)}
    /\ \E n \in HistoryFills :
          KernelIs(IdleDeletes(variant, EmptyKernel(variant), n))
    /\ linkingMode = FALSE
    /\ linkingSourceId = Null
    /\ activeRadialNodeId = Null
    /\ steps = 0
    /\ lastOp = [op |-> "deleteNode", args |-> <<Ghost>>, status |-> "ok",
                 trace |-> <<>>, value |-> Undefined]
    /\ NoSubscribers
    /\ NothingStored
    /\ NoPage

SpecHistory == InitHistory /\ [][Next]_vars

\* --------------------------------------------- specification: subscribers
\* The kernel's API with subscribers: the calls of Spec, subscribe (and the
\* core kernel's unsubscribe), and addNode() called with no argument.
Handles == {"s1", "s2"}

\* subscribe(callback): the core kernel's listeners are a Set, the other
\* kernels' an array
subscribe(v, ls, h) ==
    IF v = "core" /\ h \in Range(ls) THEN ls ELSE Append(ls, h)

\* the function subscribe returns (core): this.listeners.delete(callback)
unsubscribe(ls, h) == SelectSeqBy(ls, Range(ls) \ {h})

\* a call on this.listeners alone
ListenersCall(op, h, ls) ==
    /\ steps < MaxApiSteps
    /\ listeners' = ls
    /\ notified' = <<>>
    /\ steps' = steps + 1
    /\ lastOp' = [op |-> op, args |-> <<h>>, status |-> "ok", trace |-> <<>>,
                  value |-> Undefined]
    /\ UNCHANGED <<variant, nodes, edges, selectedId, viewport, history, gen>>
    /\ UNCHANGED <<Controller, Persistence, Page>>

SubscribeCall ==
    \E h \in Handles :
        /\ Len(listeners) < MaxSubscribers
        /\ ListenersCall("subscribe", h, subscribe(variant, listeners, h))

UnsubscribeCall ==
    \E h \in Range(listeners) :
        /\ variant = "core"
        /\ ListenersCall("unsubscribe", h, unsubscribe(listeners, h))

AddNodeOmittedCall ==
    /\ steps < MaxApiSteps
    /\ Len(nodes) < MaxNodes
    /\ Call("addNode", <<>>, addNodeOmitted(variant, K))
    /\ UNCHANGED Controller

ApiCall ==
    /\ steps < MaxApiSteps
    /\ Next

NextSubscribed ==
    \/ ApiCall
    \/ SubscribeCall
    \/ UnsubscribeCall
    \/ AddNodeOmittedCall

SpecSubscribed == Init /\ [][NextSubscribed]_vars

\* --------------------------------------------- specification: persistence
\* The kernel, its timers and localStorage as time passes: calls, waits,
\* the save timer of the core kernel, the autosave interval of the other
\* kernels, the key written by other code of the origin, and the page
\* loaded again.

\* the constructor: this.state = this.loadFromStorage() || {empty state}
constructor(v, blob, issued) ==
    CASE loadFromStorage(v, blob) = "state" -> Ok(Parse(blob, issued))
      [] loadFromStorage(v, blob) = "null" ->
            Ok([EmptyKernel(v) EXCEPT !.gen = issued])
      [] OTHER -> Throw([EmptyKernel(v) EXCEPT !.gen = issued],
                        loadFromStorage(v, blob))

\* the page is loaded: the old kernel, its subscribers and its timers are
\* gone, and new MetaMindKernel() runs on what storage holds
Construct(cause, blob, res) ==
    /\ steps < MaxPersistSteps
    /\ Put(res.k)
    /\ lastOp' = [op |-> "constructor", args |-> <<blob.kind, cause>>,
                  status |-> res.status, trace |-> <<>>, value |-> Undefined]
    /\ listeners' = <<>>
    /\ notified' = <<>>
    /\ lastSaveState' = IF variant = "core" THEN Missing
                        ELSE Stringify(res.k)
    /\ pollLeft' = IF variant = "core" THEN 0 ELSE AutoSaveInterval
    /\ saveTimeout' = 0
    /\ timers' = {}
    /\ quiet' = SaveDelay
    /\ linkingMode' = FALSE
    /\ linkingSourceId' = Null
    /\ activeRadialNodeId' = Null
    /\ steps' = steps + 1
    /\ UNCHANGED <<variant, Page>>

\* the user reloads the page
Reload ==
    /\ storage' = storage
    /\ Construct("load", storage, constructor(variant, storage, gen))

\* resetStorage(): localStorage.removeItem(key); location.reload()
ResetStorageCall ==
    /\ Running
    /\ storage' = Missing
    /\ Construct("resetStorage", Missing, constructor(variant, Missing, gen))

\* an event that is no kernel call: the kernel's state stays
Event(op, args) ==
    /\ steps < MaxPersistSteps
    /\ steps' = steps + 1
    /\ lastOp' = [op |-> op, args |-> args, status |-> "ok", trace |-> <<>>,
                  value |-> Undefined]
    /\ notified' = <<>>
    /\ UNCHANGED <<variant, nodes, edges, selectedId, viewport, history, gen,
                   listeners>>
    /\ UNCHANGED <<Controller, Page>>

\* other code of the origin (another tab, another build of the page)
\* leaves under the key a text that is no JSON
ForeignWrite ==
    \E blob \in {EmptyText, Unparsable} :
        /\ storage # blob
        /\ storage' = blob
        /\ Event("setItem", <<blob.kind>>)
        /\ UNCHANGED <<lastSaveState, pollLeft, saveTimeout, timers, quiet>>

\* the times left until the pending timers and the interval are due
Due ==
    {t.left : t \in timers} \cup (IF variant = "core" THEN {} ELSE {pollLeft})

\* the time that passes: d, or less if a timer is due sooner
Soonest(d) == CHOOSE e \in Due \cup {d} : \A x \in Due \cup {d} : e <= x

Waits == {400, 1000}

\* e ms pass with no event
Elapse(e) ==
    /\ timers' = {[id |-> t.id, left |-> t.left - e] : t \in timers}
    /\ pollLeft' = IF variant = "core" THEN 0 ELSE pollLeft - e
    /\ quiet' = IF quiet + e > SaveDelay THEN SaveDelay ELSE quiet + e
    /\ Event("wait", <<e>>)
    /\ UNCHANGED <<storage, lastSaveState, saveTimeout>>

\* time passes up to the next due timer; a due timer runs before more time
\* passes
Pass ==
    \E d \in Waits :
        /\ Running
        /\ \A x \in Due : x > 0
        /\ Elapse(Soonest(d))

\* the callback scheduleSave() gave setTimeout (core):
\* localStorage.setItem(key, JSON.stringify(this.state))
SaveTimerFires ==
    \E t \in timers :
        /\ Running
        /\ t.left = 0
        /\ storage' = Stringify(K)
        /\ timers' = timers \ {t}
        /\ Event("save", <<"written">>)
        /\ UNCHANGED <<lastSaveState, pollLeft, saveTimeout, quiet>>

\* checkAutoSave(), run by setInterval (legacy, v10, v11): write the state
\* if its text differs from the text last written
checkAutoSave ==
    /\ Running
    /\ variant # "core"
    /\ pollLeft = 0
    /\ pollLeft' = AutoSaveInterval
    /\ IF Stringify(K) # lastSaveState
       THEN /\ storage' = Stringify(K)
            /\ lastSaveState' = Stringify(K)
            /\ Event("checkAutoSave", <<"written">>)
       ELSE /\ UNCHANGED <<storage, lastSaveState>>
            /\ Event("checkAutoSave", <<"unchanged">>)
    /\ UNCHANGED <<saveTimeout, timers, quiet>>

\* the calls made while time passes
PersistCall ==
    /\ steps < MaxPersistSteps
    /\ \/ AddNodeCall
       \/ UpdateNodeCall
       \/ DeleteNodeCall
       \/ AutoLayoutCall

NextPersist ==
    \/ PersistCall
    \/ Pass
    \/ SaveTimerFires
    \/ checkAutoSave
    \/ ForeignWrite
    \/ Reload
    \/ ResetStorageCall

SpecPersist == Init /\ [][NextPersist]_vars

\* -------------------------------------------------- specification: render
\* The stable/v11 kernel under a controller whose subscriber renders the
\* inspector with the phase engines of stable/v11 or of stable/v12, and a
\* user who focuses the fields, types and picks while calls change the
\* state.

Typed == {"A", "B"}
Picked == {"hub", "note"}

InitRender ==
    /\ variant = "v11"
    /\ nodes = <<>>
    /\ edges = <<>>
    /\ selectedId = Null
    /\ viewport = EmptyViewport(variant)
    /\ history = <<>>
    /\ gen = 0
    /\ linkingMode = FALSE
    /\ linkingSourceId = Null
    /\ activeRadialNodeId = Null
    /\ steps = 0
    /\ lastOp = Constructed
    /\ listeners = <<"render">>
    /\ notified = <<>>
    /\ NothingStored
    /\ phases \in {"v11", "v12"}
    /\ dom = EmptyDom
    /\ focus = 0
    /\ registry = init(phases, PhaseRegistrySystem(phases))
    /\ viewMode = "map"

\* the user moves the focus: to a field of the inspector, or away (el = 0)
Focus(el) ==
    /\ focus # el
    /\ focus' = el
    /\ lastOp' = [op |-> "focus", args |-> <<el>>, status |-> "ok",
                  trace |-> <<>>, value |-> Undefined]
    /\ notified' = <<>>
    /\ UNCHANGED <<variant, nodes, edges, selectedId, viewport, history, gen,
                   steps, listeners, phases, dom, registry, viewMode>>
    /\ UNCHANGED <<Controller, Persistence>>

FocusField == \E i \in 1..Len(dom.fields) : Focus(dom.fields[i].el)

Blur == Focus(0)

\* the user edits the focused field: the element shows the text, then its
\* handler calls kernel.updateNode(node.id, {<field>: e.target.value})
Input(name, texts) ==
    \E text \in texts :
        /\ InDocument(dom, focus)
        /\ dom.fields[FieldAt(dom, focus)].name = name
        /\ dom.fields[FieldAt(dom, focus)].value # text
        /\ steps < MaxSteps
        /\ K.gen + 3 <= Len(IdPool)
        /\ Put(updateNode(variant, K, dom.fields[FieldAt(dom, focus)].node,
                          [n \in {name} |-> text]).k)
        /\ steps' = steps + 1
        /\ lastOp' = [op |-> "input", args |-> <<name, text>>,
                      status |-> "ok", trace |-> <<>>, value |-> Undefined]
        /\ Notifications(
              updateNode(variant, K, dom.fields[FieldAt(dom, focus)].node,
                         [n \in {name} |-> text]).k.notifies)
        /\ UNCHANGED <<phases, registry, viewMode>>
        /\ dom' = Renders(phases,
                     updateNode(variant, K,
                                dom.fields[FieldAt(dom, focus)].node,
                                [n \in {name} |-> text]).k,
                     [dom |-> [dom EXCEPT
                                 !.fields[FieldAt(dom, focus)].value = text,
                                 !.cleared = FALSE],
                      focus |-> focus],
                     updateNode(variant, K,
                                dom.fields[FieldAt(dom, focus)].node,
                                [n \in {name} |-> text]).k.notifies).dom
        /\ focus' = Renders(phases,
                     updateNode(variant, K,
                                dom.fields[FieldAt(dom, focus)].node,
                                [n \in {name} |-> text]).k,
                     [dom |-> [dom EXCEPT
                                 !.fields[FieldAt(dom, focus)].value = text,
                                 !.cleared = FALSE],
                      focus |-> focus],
                     updateNode(variant, K,
                                dom.fields[FieldAt(dom, focus)].node,
                                [n \in {name} |-> text]).k.notifies).focus
        /\ UNCHANGED <<variant, listeners, storage, lastSaveState, pollLeft>>
        /\ UNCHANGED Controller

TypeTitle == Input("title", Typed)

PickType == Input("type", Picked)

\* a change of the state made upstream of the field: another caller of
\* updateNode gives the node a title or a type
UpstreamUpdate ==
    \E id \in NodeIds(nodes), u \in {[title |-> "Child"], [type |-> "profile"]} :
        /\ Call("updateNode", <<id, u>>, updateNode(variant, K, id, u))
        /\ UNCHANGED Controller

\* a step of the page alone: the kernel and its subscribers are left as
\* they are, and nobody is notified
PageStep(op, args) ==
    /\ steps < MaxSteps
    /\ steps' = steps + 1
    /\ lastOp' = [op |-> op, args |-> args, status |-> "ok",
                  trace |-> <<>>, value |-> Undefined]
    /\ notified' = <<>>
    /\ UNCHANGED <<variant, nodes, edges, selectedId, viewport, history, gen,
                   listeners, phases>>
    /\ UNCHANGED <<Controller, Persistence>>

\* a click in the phase list of the controller of stable/v11:
\* registry.setActive(el.dataset.id); this.render()
SetActiveClick ==
    \E id \in Range(registry.engines) :
        /\ phases = "v11"
        /\ PageStep("setActive", <<id>>)
        /\ registry' = setActive(phases, registry, id)
        /\ viewMode' = viewMode
        /\ dom' = renderActive(setActive(phases, registry, id), K,
                               AtCall(dom, focus)).dom
        /\ focus' = renderActive(setActive(phases, registry, id), K,
                                 AtCall(dom, focus)).focus

\* SandboxController.setView(mode) of part_001: the view content is
\* emptied when the mode changes, then the page is rendered
setView(mode, k, p) ==
    PageRender("v12", registry, mode, k,
               IF viewMode # mode
               THEN [p EXCEPT !.dom.rows = <<>>, !.dom.cleared = TRUE]
               ELSE p)

SetView ==
    \E mode \in {"map", "web", "tree"} :
        /\ phases = "v12"
        /\ PageStep("setView", <<mode>>)
        /\ registry' = registry
        /\ viewMode' = mode
        /\ dom' = setView(mode, K, AtCall(dom, focus)).dom
        /\ focus' = setView(mode, K, AtCall(dom, focus)).focus

NextRender ==
    \/ SetActiveClick
    \/ SetView
    \/ FocusField
    \/ Blur
    \/ TypeTitle
    \/ PickType
    \/ UpstreamUpdate
    \/ AddNodeCall
    \/ SelectNodeCall
    \/ DeleteNodeCall
    \/ UndoCall

SpecRender == InitRender /\ [][NextRender]_vars

\* the same page with a user who does not keep a field focused for ever
SpecBlur == InitRender /\ [][NextRender]_vars /\ WF_vars(Blur)

\* -------------------------------------------------- specification: outline
\* The stable/v11 kernel under the controller of part_001 with the phase
\* engines of stable/v12, the outliner or the web preview in view: nodes
\* are added, linked, unlinked and renamed, and every notification renders
\* the view.
InitOutline ==
    /\ variant = "v11"
    /\ nodes = <<>>
    /\ edges = <<>>
    /\ selectedId = Null
    /\ viewport = EmptyViewport(variant)
    /\ history = <<>>
    /\ gen = 0
    /\ linkingMode = FALSE
    /\ linkingSourceId = Null
    /\ activeRadialNodeId = Null
    /\ steps = 0
    /\ lastOp = Constructed
    /\ listeners = <<"render">>
    /\ notified = <<>>
    /\ NothingStored
    /\ phases = "v12"
    /\ dom = EmptyDom
    /\ focus = 0
    /\ registry = init(phases, PhaseRegistrySystem(phases))
    /\ viewMode \in {"tree", "web"}

OutlineAddNode ==
    \E title \in {"A", "B"} :
        /\ Len(nodes) < MaxNodes
        /\ Call("addNode", <<Absent, title, Absent>>,
                addNode(variant, K, [id |-> Absent, title |-> title,
                                     type |-> Absent]))
        /\ UNCHANGED Controller

OutlineAddEdge ==
    \E s \in NodeIds(nodes), t \in NodeIds(nodes) :
        /\ Call("addEdge", <<s, t>>, addEdge(variant, K, s, t))
        /\ UNCHANGED Controller

OutlineRename ==
    \E id \in NodeIds(nodes), title \in {"A", "B"} :
        /\ Call("updateNode", <<id, [title |-> title]>>,
                updateNode(variant, K, id, [title |-> title]))
        /\ UNCHANGED Controller

OutlineDeleteEdge ==
    \E e \in Range(edges) :
        /\ Call("deleteEdge", <<e.id>>, deleteEdge(variant, K, e.id))
        /\ UNCHANGED Controller

NextOutline ==
    \/ OutlineAddNode
    \/ OutlineAddEdge
    \/ OutlineRename
    \/ OutlineDeleteEdge

SpecOutline == InitOutline /\ [][NextOutline]_vars

\* ------------------------------------------------ specification: registry
\* The PhaseRegistrySystem of stable/v11, of part_000 and of part_003, from
\* its constructor on: the controller calls init(kernel), engines are
\* registered and setActive is called with the id of an engine or with an
\* id no engine has.

RegistryFiles == {"v11", "part_000", "part_003"}
EngineIds == {"text", "web", "tree", "universal"}

InitRegistry ==
    /\ variant = "v11"
    /\ nodes = <<>>
    /\ edges = <<>>
    /\ selectedId = Null
    /\ viewport = EmptyViewport(variant)
    /\ history = <<>>
    /\ gen = 0
    /\ linkingMode = FALSE
    /\ linkingSourceId = Null
    /\ activeRadialNodeId = Null
    /\ steps = 0
    /\ lastOp = Constructed
    /\ listeners = <<>>
    /\ notified = <<>>
    /\ NothingStored
    /\ phases \in RegistryFiles
    /\ dom = EmptyDom
    /\ focus = 0
    /\ registry = PhaseRegistrySystem(phases)
    /\ viewMode = "map"

RegistryStep(op, args, reg) ==
    /\ PageStep(op, args)
    /\ registry' = reg
    /\ UNCHANGED <<dom, focus, viewMode>>

InitCall ==
    /\ registry.engines = <<>>
    /\ RegistryStep("init", <<>>, init(phases, registry))

RegisterCall ==
    \E engine \in EngineIds :
        RegistryStep("register", <<engine>>, register(registry, engine))

SetActiveCall ==
    \E id \in EngineIds \cup {Ghost} :
        RegistryStep("setActive", <<id>>, setActive(phases, registry, id))

NextRegistry ==
    \/ InitCall
    \/ RegisterCall
    \/ SetActiveCall

SpecRegistry == InitRegistry /\ [][NextRegistry]_vars

\* -------------------------------------------------- specification: undo
\* A kernel with a history, constructed on a state an earlier session left
\* in storage: the constructor takes the stored state as this.state, and
\* lastSaveState is its text.  A call follows, then another.
Defaults == [id |-> Absent, title |-> Absent, type |-> Absent]

\* the states an earlier session may have left: the empty one, one node,
\* two nodes and an edge between them
OneNode(v) == addNode(v, EmptyKernel(v), Defaults).k

TwoLinked(v) ==
    addEdge(v, addNode(v, OneNode(v), Defaults).k, IdPool[1], IdPool[2]).k

StoredKernels(v) == {EmptyKernel(v), OneNode(v), TwoLinked(v)}

InitUndo ==
    /\ variant \in {v \in Variants : HasHistory(v)}
    /\ \E k \in StoredKernels(variant) :
          /\ KernelIs(Parse(Stringify(k), k.gen))
          /\ storage = Stringify(k)
          /\ lastSaveState = Stringify(k)
    /\ pollLeft = AutoSaveInterval
    /\ saveTimeout = 0
    /\ timers = {}
    /\ quiet = SaveDelay
    /\ linkingMode = FALSE
    /\ linkingSourceId = Null
    /\ activeRadialNodeId = Null
    /\ steps = 0
    /\ lastOp = [op |-> "constructor", args |-> <<"json", "load">>,
                 status |-> "ok", trace |-> <<>>, value |-> Undefined]
    /\ NoSubscribers
    /\ NoPage

NextUndo ==
    \/ steps < MaxUndoSteps /\ AddNodeCall
    \/ steps < MaxUndoSteps /\ AddEdgeCall
    \/ steps < MaxUndoSteps /\ DeleteNodeCall
    \/ steps < MaxUndoSteps /\ DeleteEdgeCall
    \/ steps < MaxUndoSteps /\ UpdateNodeCall
    \/ steps < MaxUndoSteps /\ UndoCall

SpecUndo == InitUndo /\ [][NextUndo]_vars

\* ------------------------------------------------- specification: settle
\* The kernel is called a bounded number of times; the clock and the timers
\* of the page go on for ever.

Dragged == [x |-> 40, y |-> 30]

\* a timer event of a page that stays open: the kernel's state stays
Idle(op, args) ==
    /\ lastOp' = [op |-> op, args |-> args, status |-> "ok", trace |-> <<>>,
                  value |-> Undefined]
    /\ notified' = <<>>
    /\ UNCHANGED <<variant, nodes, edges, selectedId, viewport, history, gen,
                   listeners, steps>>
    /\ UNCHANGED <<Controller, Page>>

\* time passes up to the next due timer
Tick ==
    /\ \A x \in Due : x > 0
    /\ timers' = {[id |-> t.id, left |-> t.left - Soonest(SaveDelay)] :
                    t \in timers}
    /\ pollLeft' = IF variant = "core" THEN 0
                   ELSE pollLeft - Soonest(SaveDelay)
    /\ quiet' = IF quiet + Soonest(SaveDelay) > SaveDelay THEN SaveDelay
                ELSE quiet + Soonest(SaveDelay)
    /\ Idle("wait", <<Soonest(SaveDelay)>>)
    /\ UNCHANGED <<storage, lastSaveState, saveTimeout>>

\* the callback scheduleSave() gave setTimeout (core) runs
TimeoutCallback ==
    \E t \in timers :
        /\ t.left = 0
        /\ storage' = Stringify(K)
        /\ timers' = timers \ {t}
        /\ Idle("save", <<"written">>)
        /\ UNCHANGED <<lastSaveState, pollLeft, saveTimeout, quiet>>

\* the callback the constructor gave setInterval (legacy, v10, v11) runs
IntervalCallback ==
    /\ variant # "core"
    /\ pollLeft = 0
    /\ pollLeft' = AutoSaveInterval
    /\ IF Stringify(K) # lastSaveState
       THEN /\ storage' = Stringify(K)
            /\ lastSaveState' = Stringify(K)
            /\ Idle("checkAutoSave", <<"written">>)
       ELSE /\ UNCHANGED <<storage, lastSaveState>>
            /\ Idle("checkAutoSave", <<"unchanged">>)
    /\ UNCHANGED <<saveTimeout, timers, quiet>>

\* the calls made before the page is left alone: a node of the defaults is
\* added, a node is dragged, a node is linked, the map is laid out
SettleAddNode ==
    /\ Len(nodes) < MaxNodes
    /\ Call("addNode", <<Absent, Absent, Absent>>,
            addNode(variant, K, Defaults))
    /\ UNCHANGED Controller

SettleUpdateNode ==
    \E id \in NodeIds(nodes) :
        /\ Call("updateNode", <<id, Dragged>>,
                updateNode(variant, K, id, Dragged))
        /\ UNCHANGED Controller

SettleAddEdge ==
    \E s \in NodeIds(nodes), t \in ArgIds :
        /\ Call("addEdge", <<s, t>>, addEdge(variant, K, s, t))
        /\ UNCHANGED Controller

NextSettle ==
    \/ SettleAddNode
    \/ SettleAddEdge
    \/ SettleUpdateNode
    \/ AutoLayoutCall
    \/ Tick
    \/ TimeoutCallback
    \/ IntervalCallback

\* the event loop runs a due timer, and time does not stop
SpecSettle ==
    /\ Init
    /\ [][NextSettle]_vars
    /\ WF_vars(Tick)
    /\ WF_vars(TimeoutCallback)
    /\ WF_vars(IntervalCallback)

\* ---------------------------------------------- specification: reentrant
\* Subscribers of which one calls the kernel from its callback:
\*   kernel.subscribe(s => { if (s.nodes.length < ReactLimit)
\*                               kernel.addNode({}) })
Reacts(h) == h = "s1"

RECURSIVE Deliver(_, _, _, _, _)

\* the mutation a callback makes, and the notify() at its end: st.applied
\* counts the mutations applied so far
React(v, st, ls) ==
    Deliver(v, [k |-> addNode(v, st.k, Defaults).k, log |-> st.log,
                applied |-> st.applied + 1],
            ls, 1, st.applied + 1)

\* notify() of mutation m from the i-th listener on:
\* this.listeners.forEach(cb => cb(this.state)); st.log records each
\* invocation, the callback invoked and the mutation whose notify() made it
Deliver(v, st, ls, i, m) ==
    IF i > Len(ls) THEN st
    ELSE LET seen == [st EXCEPT !.log = Append(@, [to |-> ls[i], of |-> m])]
         IN Deliver(v,
                    IF Reacts(ls[i]) /\ Len(st.k.nodes) < ReactLimit
                    THEN React(v, seen, ls)
                    ELSE seen,
                    ls, i + 1, m)

\* a call that ends in notify(), with the calls its subscribers make
Reentrant(op, args, res, st) ==
    /\ steps < MaxReentrantSteps
    /\ K.gen + 3 <= Len(IdPool)
    /\ Put(st.k)
    /\ steps' = steps + 1
    /\ lastOp' = [op |-> op, args |-> args, status |-> res.status,
                  trace |-> st.log, value |-> res.value]
    /\ notified' = [i \in 1..Len(st.log) |-> st.log[i].to]
    /\ quiet' = 0
    /\ saveTimeout' =
          IF variant = "core"
          THEN scheduleSaves([saveTimeout |-> saveTimeout,
                              timers |-> timers], st.applied).saveTimeout
          ELSE saveTimeout
    /\ timers' =
          IF variant = "core"
          THEN scheduleSaves([saveTimeout |-> saveTimeout,
                              timers |-> timers], st.applied).timers
          ELSE timers
    /\ UNCHANGED <<variant, listeners, storage, lastSaveState, pollLeft>>
    /\ UNCHANGED <<Controller, Page>>

Notified(res) ==
    Deliver(variant, [k |-> res.k, log |-> <<>>, applied |-> 1],
            listeners, 1, 1)

ReentrantAddNode ==
    /\ Len(nodes) < MaxNodes
    /\ Reentrant("addNode", <<Absent, Absent, Absent>>,
                 addNode(variant, K, Defaults),
                 Notified(addNode(variant, K, Defaults)))

ReentrantDeleteNode ==
    \E id \in NodeIds(nodes) :
        Reentrant("deleteNode", <<id>>, deleteNode(variant, K, id),
                  Notified(deleteNode(variant, K, id)))

\* subscribe(callback) with a callback not registered yet
SubscribeNew ==
    \E h \in Handles \ Range(listeners) :
        ListenersCall("subscribe", h, subscribe(variant, listeners, h))

NextReentrant ==
    \/ SubscribeNew
    \/ ReentrantAddNode
    \/ ReentrantDeleteNode

SpecReentrant == Init /\ [][NextReentrant]_vars

\* -------------------------------------------------- specification: sort
\* Three sibling nodes with distinct ids, of a few types and titles, in any
\* order, sorted as autoLayout sorts the children of a node and the roots.
SortTypes == {"profile", "note"}
SortIds == {IdPool[1], IdPool[2], IdPool[3]}
SortTitles == {"", "A", "B"}

SortNodeChoices ==
    {[id |-> id, title |-> title, type |-> type, x |-> 0, y |-> 0] :
        id \in SortIds, title \in SortTitles, type \in SortTypes}

InitSort ==
    /\ variant = "v11"
    /\ \E a \in SortNodeChoices, b \in SortNodeChoices, c \in SortNodeChoices :
          /\ a.id # b.id /\ a.id # c.id /\ b.id # c.id
          /\ nodes = <<a, b, c>>
    /\ edges = <<>>
    /\ selectedId = Null
    /\ viewport = EmptyViewport(variant)
    /\ history = <<>>
    /\ gen = 3
    /\ linkingMode = FALSE
    /\ linkingSourceId = Null
    /\ activeRadialNodeId = Null
    /\ steps = 0
    /\ lastOp = Constructed
    /\ NoSubscribers
    /\ NothingStored
    /\ NoPage

\* siblings.sort((a, b) => this.nodeComparator(a, b)): the order of the ids
\* that comes out is recorded, the state stays
SortCall ==
    /\ steps < MaxSorts
    /\ steps' = steps + 1
    /\ lastOp' = [op |-> "sort", args |-> <<>>, status |-> "ok",
                  trace |-> [i \in 1..Len(nodes) |-> SortNodes(nodes)[i].id],
                  value |-> Undefined]
    /\ notified' = <<>>
    /\ UNCHANGED <<variant, nodes, edges, selectedId, viewport, history,
                   gen, listeners>>
    /\ UNCHANGED <<Controller, Persistence, Page>>

NextSort == SortCall

SpecSort == InitSort /\ [][NextSort]_vars

\* -------------------------------------------------- specification: layout
\* autoLayout on every small graph the kernel can hold: nodes whose ids
\* collate in the order they were added or against it, joined by edges
\* added in any order (cycles included), at the origin as addNode leaves
\* them or moved by updateNode.
Injections(n, S) ==
    {f \in [1..n -> S] : \A i, j \in 1..n : i # j => f[i] # f[j]}

IdOrders == {"ascending", "descending"}
TitlePatterns == {"same", "alternating", "untitled"}
TypePatterns == {"same", "alternating"}
StartPositions == {[x |-> 0, y |-> 0], [x |-> 40, y |-> 30]}

\* what the nodes are labelled with: only the v11 pass (nodeComparator)
\* reads a node's type, title and the order of the ids
LabelChoices(v) ==
    IF v = "v11" THEN IdOrders \X TitlePatterns \X TypePatterns
    ELSE {<<"ascending", "same", "same">>}

LayoutNodes(n, labels, at) ==
    [i \in 1..n |->
        [id |-> IF labels[1] = "descending" THEN IdPool[n + 1 - i]
                ELSE IdPool[i],
         title |-> CASE labels[2] = "untitled" -> ""
                     [] labels[2] = "alternating" /\ i % 2 = 1 -> "B"
                     [] OTHER -> "A",
         type |-> IF labels[3] = "alternating" /\ i % 2 = 0 THEN "hub"
                  ELSE "note",
         x |-> at.x,
         y |-> at.y]]

\* the ordered pairs addEdge accepts between nodes 1..n
LayoutPairs(n) == {p \in (1..n) \X (1..n) : p[1] # p[2]}

LayoutEdges(n, ns, pairs) ==
    [i \in 1..Len(pairs) |->
        [id |-> IdPool[n + i],
         source |-> ns[pairs[i][1]].id,
         target |-> ns[pairs[i][2]].id]]

InitLayout ==
    /\ variant \in Variants
    /\ \E n \in 1..MaxLayoutNodes :
       \E labels \in LabelChoices(variant) :
       \E at \in StartPositions :
       \E m \in 0..MaxLayoutEdges :
       \E pairs \in Injections(m, LayoutPairs(n)) :
          /\ nodes = LayoutNodes(n, labels, at)
          /\ edges = LayoutEdges(n, LayoutNodes(n, labels, at), pairs)
          /\ gen = n + m
    /\ selectedId = Null
    /\ viewport = EmptyViewport(variant)
    /\ history = <<>>
    /\ linkingMode = FALSE
    /\ linkingSourceId = Null
    /\ activeRadialNodeId = Null
    /\ steps = 0
    /\ lastOp = Constructed
    /\ NoSubscribers
    /\ NothingStored
    /\ NoPage

LayoutRun ==
    /\ steps < MaxLayoutRuns
    /\ AutoLayoutCall

NextLayout == LayoutRun

SpecLayout == InitLayout /\ [][NextLayout]_vars

\* -------------------------------------------------- specification: shared
\* autoLayout of the kernels that keep a visited set (stable/v10, v11) on
\* graphs dense enough for a node to have several parents: every choice of
\* edges between the nodes, added in any order.
InitShared ==
    /\ variant \in {"v10", "v11"}
    /\ \E n \in 1..MaxSharedNodes :
       \E m \in 0..MaxSharedEdges :
       \E pairs \in Injections(m, LayoutPairs(n)) :
          /\ nodes = LayoutNodes(n, <<"ascending", "same", "same">>,
                                 [x |-> 0, y |-> 0])
          /\ edges = LayoutEdges(n,
                        LayoutNodes(n, <<"ascending", "same", "same">>,
                                    [x |-> 0, y |-> 0]), pairs)
          /\ gen = n + m
    /\ selectedId = Null
    /\ viewport = EmptyViewport(variant)
    /\ history = <<>>
    /\ linkingMode = FALSE
    /\ linkingSourceId = Null
    /\ activeRadialNodeId = Null
    /\ steps = 0
    /\ lastOp = Constructed
    /\ NoSubscribers
    /\ NothingStored
    /\ NoPage

SpecShared == InitShared /\ [][NextLayout]_vars

\* ---------------------------------------------- specification: comparator
\* nodeComparator of the stable/v11 kernel on every pair of nodes drawn from
\* a few types, titles and ids.
CompareTypes == {"profile", "hub", "note", "custom"}
CompareTitles == {"", "A", "B"}
CompareIds == {IdPool[1], IdPool[2]}

CompareNodes ==
    {[id |-> id, title |-> title, type |-> type, x |-> 0, y |-> 0] :
        id \in CompareIds, title \in CompareTitles, type \in CompareTypes}

InitCompare ==
    /\ variant = "v11"
    /\ \E a \in CompareNodes, b \in CompareNodes : nodes = <<a, b>>
    /\ edges = <<>>
    /\ selectedId = Null
    /\ viewport = EmptyViewport(variant)
    /\ history = <<>>
    /\ gen = 2
    /\ linkingMode = FALSE
    /\ linkingSourceId = Null
    /\ activeRadialNodeId = Null
    /\ steps = 0
    /\ lastOp = Constructed
    /\ NoSubscribers
    /\ NothingStored
    /\ NoPage

\* kernel.nodeComparator(nodes[i], nodes[j]): the number it returns is
\* recorded, the state stays
CompareCall ==
    \E i \in 1..Len(nodes), j \in 1..Len(nodes) :
        /\ steps < MaxCompares
        /\ steps' = steps + 1
        /\ lastOp' = [op |-> "nodeComparator", args |-> <<i, j>>,
                      status |-> "ok", trace |-> <<>>,
                      value |-> [type |-> "number", id |-> "",
                                 number |-> nodeComparator(nodes[i], nodes[j])]]
        /\ notified' = <<>>
        /\ UNCHANGED <<variant, nodes, edges, selectedId, viewport, history,
                       gen, listeners>>
        /\ UNCHANGED <<Controller, Persistence, Page>>

NextCompare == CompareCall

SpecCompare == InitCompare /\ [][NextCompare]_vars

\* -------------------------------------------------- specification: forest
\* autoLayout on every forest of up to MaxForestNodes nodes: node i is a
\* root or the child of an earlier node, as addNode and addEdge build a
\* tree from its root down.

\* parent[i] = 0 for a root, else the index of the parent of node i
ParentVectors(n) ==
    {parent \in [1..n -> 0..(n - 1)] : \A i \in 1..n : parent[i] < i}

\* the indexes of the nodes that have a parent, in the order of the nodes
ChildIndexes(n, parent) ==
    SelectSeqBy([i \in 1..n |-> i], {i \in 1..n : parent[i] # 0})

ForestEdges(n, ns, parent) ==
    [j \in 1..Len(ChildIndexes(n, parent)) |->
        [id |-> IdPool[n + j],
         source |-> ns[parent[ChildIndexes(n, parent)[j]]].id,
         target |-> ns[ChildIndexes(n, parent)[j]].id]]

InitForest ==
    /\ variant \in Variants
    /\ \E n \in 1..MaxForestNodes :
       \E labels \in LabelChoices(variant) :
       \E at \in StartPositions :
       \E parent \in ParentVectors(n) :
          /\ nodes = LayoutNodes(n, labels, at)
          /\ edges = ForestEdges(n, LayoutNodes(n, labels, at), parent)
          /\ gen = n + Len(ChildIndexes(n, parent))
    /\ selectedId = Null
    /\ viewport = EmptyViewport(variant)
    /\ history = <<>>
    /\ linkingMode = FALSE
    /\ linkingSourceId = Null
    /\ activeRadialNodeId = Null
    /\ steps = 0
    /\ lastOp = Constructed
    /\ NoSubscribers
    /\ NothingStored
    /\ NoPage

SpecForest == InitForest /\ [][NextLayout]_vars

\* ------------------------------------------------------------- Numbers
\* The viewport's arithmetic.  A JavaScript Number is a binary floating-point
\* value: here [m, e] stands for m * 2^e with a significand of Precision
\* bits (2^(Precision-1) <= |m| < 2^Precision, or m = 0), and every
\* operation rounds its exact result to the nearest such value, ties to
\* even, as IEEE 754 does.  Exponents are unbounded: nothing here overflows
\* or underflows.
RECURSIVE Pow2(_)
Pow2(n) == IF n <= 0 THEN 1 ELSE 2 * Pow2(n - 1)

Abs(n) == IF n < 0 THEN -n ELSE n

Zero == [m |-> 0, e |-> 0]

\* the quotient q (remainder r of divisor d) rounded to nearest, ties to even
RoundQuotient(q, r, d, e) ==
    IF 2 * r > d \/ (2 * r = d /\ q % 2 = 1)
    THEN IF q + 1 = Pow2(Precision)
         THEN [m |-> Pow2(Precision - 1), e |-> e + 1]
         ELSE [m |-> q + 1, e |-> e]
    ELSE [m |-> q, e |-> e]

RECURSIVE RoundTo(_, _, _)
\* the Number nearest to (n / d) * 2^e, for n >= 0 and d > 0
RoundTo(n, d, e) ==
    IF n = 0 THEN Zero
    ELSE IF n < d * Pow2(Precision - 1) THEN RoundTo(2 * n, d, e - 1)
    ELSE IF n >= d * Pow2(Precision) THEN RoundTo(n, 2 * d, e + 1)
    ELSE RoundQuotient(n \div d, n % d, d, e)

Signed(s, a) == [m |-> s * a.m, e |-> a.e]

\* the Number a numeric literal n/d denotes
Number(n, d) == Signed(Sign(n), RoundTo(Abs(n), d, 0))

Neg(a) == [m |-> -a.m, e |-> a.e]

\* hi + lo for hi.e >= lo.e: past Precision + 1 bits of distance lo is less
\* than a quarter of hi's last place and the sum rounds to hi
AddAligned(hi, lo) ==
    IF hi.e - lo.e >= Precision + 2 THEN hi
    ELSE Signed(Sign(hi.m * Pow2(hi.e - lo.e) + lo.m),
                RoundTo(Abs(hi.m * Pow2(hi.e - lo.e) + lo.m), 1, lo.e))

\* a + b
Add(a, b) ==
    IF a.m = 0 THEN b
    ELSE IF b.m = 0 THEN a
    ELSE IF a.e >= b.e THEN AddAligned(a, b) ELSE AddAligned(b, a)

\* a - b
Sub(a, b) == Add(a, Neg(b))

\* a * b
Mul(a, b) ==
    Signed(Sign(a.m) * Sign(b.m), RoundTo(Abs(a.m) * Abs(b.m), 1, a.e + b.e))

\* a / b, b nonzero
Div(a, b) ==
    Signed(Sign(a.m) * Sign(b.m), RoundTo(Abs(a.m), Abs(b.m), a.e - b.e))

\* a < b: the rounded difference has the sign of the exact one
Less(a, b) == Sub(a, b).m < 0

\* Math.max, Math.min
Max(a, b) == IF Less(a, b) THEN b ELSE a
Min(a, b) == IF Less(b, a) THEN b ELSE a

\* ------------------------------------------------------------- viewport
\* pan(dx, dy)
pan(vp, dx, dy) ==
    [vp EXCEPT !.x = Add(@, dx), !.y = Add(@, dy)]

\* newScale = Math.max(0.1, Math.min(5, oldScale + delta))
newScale(oldScale, delta) ==
    Max(Number(1, 10), Min(Number(5, 1), Add(oldScale, delta)))

\* the ratio taken from the scale before it is clamped
zoomRatioUnclamped(oldScale, delta) ==
    Div(Add(oldScale, delta), oldScale)

\* ratio = newScale / oldScale
zoomRatio(oldScale, delta) ==
    Div(newScale(oldScale, delta), oldScale)

\* cx - (cx - viewport.x) * ratio
zoomTowards(c, at, ratio) == Sub(c, Mul(Sub(c, at), ratio))

\* zoom(delta, cx, cy), with cx and cy given
zoom(vp, delta, cx, cy) ==
    [x |-> zoomTowards(cx, vp.x, zoomRatio(vp.scale, delta)),
     y |-> zoomTowards(cy, vp.y, zoomRatio(vp.scale, delta)),
     scale |-> newScale(vp.scale, delta)]

\* screenToWorld(sx, sy)
screenToWorld(vp, sx, sy) ==
    [x |-> Div(Sub(sx, vp.x), vp.scale),
     y |-> Div(Sub(sy, vp.y), vp.scale)]

\* ------------------------------------------------ specification: viewport
\* pan and zoom on the viewport of an empty kernel (core and legacy: the
\* kernels that have zoom)
Deltas ==
    {Number(1, 10), Number(-1, 10), Number(1, 2), Number(-3, 1), Number(5, 1)}

ScreenPoints ==
    {<<Number(0, 1), Number(0, 1)>>, <<Number(3, 1), Number(-2, 1)>>,
     <<Number(-2, 1), Number(7, 1)>>, <<Number(20, 1), Number(12, 1)>>}

PanSteps == {<<Number(-3, 1), Number(1, 1)>>}

InitViewport ==
    /\ variant \in {"core", "legacy"}
    /\ nodes = <<>>
    /\ edges = <<>>
    /\ selectedId = Null
    /\ viewport = [x |-> Number(0, 1), y |-> Number(0, 1),
                   scale |-> Number(1, 1)]
    /\ history = <<>>
    /\ gen = 0
    /\ linkingMode = FALSE
    /\ linkingSourceId = Null
    /\ activeRadialNodeId = Null
    /\ steps = 0
    /\ lastOp = Constructed
    /\ NoSubscribers
    /\ NothingStored
    /\ NoPage

\* pan and zoom end with one notify()
ViewportCall(op, args, vp) ==
    /\ steps < MaxViewportSteps
    /\ viewport' = vp
    /\ steps' = steps + 1
    /\ lastOp' = [op |-> op, args |-> args, status |-> "ok", trace |-> <<>>,
                  value |-> Undefined]
    /\ Notifications(1)
    /\ UNCHANGED <<variant, nodes, edges, selectedId, history, gen,
                   linkingMode, linkingSourceId, activeRadialNodeId,
                   listeners, storage, lastSaveState, pollLeft>>
    /\ UNCHANGED Page

PanCall ==
    \E d \in PanSteps :
        ViewportCall("pan", <<d[1], d[2]>>, pan(viewport, d[1], d[2]))

ZoomCall ==
    \E delta \in Deltas, c \in ScreenPoints :
        ViewportCall("zoom", <<delta, c[1], c[2]>>,
                     zoom(viewport, delta, c[1], c[2]))

NextViewport ==
    \/ PanCall
    \/ ZoomCall

SpecViewport == InitViewport /\ [][NextViewport]_vars

\* ---------------------------------------------------------------- properties
\* the snapshot v10 and v11 push before a mutation: the graph as the last
\* call found it
Before == history[Len(history)]

EdgesOfPair(es, source, target) ==
    {i \in 1..Len(es) : es[i].source = source /\ es[i].target = target}

\* C1: after any sequence of addNode calls, with any config and interleaved
\* with the other mutations, the ids of the nodes in state.nodes are pairwise
\* distinct.
NodeIdsPairwiseDistinct ==
    \A i, j \in 1..Len(nodes) : i # j => nodes[i].id # nodes[j].id

\* C2: after deleteNode(id) returns, no node of state.nodes has that id and
\* no edge of state.edges has it as its source or as its target.
CascadeDelete ==
    lastOp.op = "deleteNode" =>
        /\ lastOp.args[1] \notin NodeIds(nodes)
        /\ \A e \in Range(edges) :
              e.source # lastOp.args[1] /\ e.target # lastOp.args[1]

\* C2's case: deleteNode has just removed a node that an edge joined to
\* another node
CascadeDeleteWitness ==
    /\ variant = "v10"
    /\ lastOp.op = "deleteNode"
    /\ Len(history) > 0
    /\ lastOp.args[1] \in NodeIds(Before.nodes)
    /\ \E e \in Range(Before.edges) :
          /\ lastOp.args[1] \in {e.source, e.target}
          /\ {e.source, e.target} \subseteq NodeIds(Before.nodes)

\* C3: addEdge creates an edge only between ids of existing nodes, so every
\* edge of state.edges has both endpoints among the ids of state.nodes.
EdgesReferToNodes ==
    \A e \in Range(edges) :
        e.source \in NodeIds(nodes) /\ e.target \in NodeIds(nodes)

\* C4: addEdge(x, x) never increases the edge count, and in every reachable
\* state no edge has its source equal to its target.
NoSelfLoops ==
    /\ [](\A e \in Range(edges) : e.source # e.target)
    /\ [][(lastOp'.op = "addEdge" /\ lastOp'.args[1] = lastOp'.args[2])
            => Len(edges') <= Len(edges)]_vars

\* C4's case: addEdge(x, x) was called on a node x of the graph, itself the
\* source of an edge
NoSelfLoopsWitness ==
    /\ lastOp.op = "addEdge"
    /\ lastOp.args[1] = lastOp.args[2]
    /\ lastOp.args[1] \in NodeIds(nodes)
    /\ \E e \in Range(edges) : e.source = lastOp.args[1]

\* C5: state.edges holds at most one edge per ordered (source, target) pair;
\* after addEdge(a, b), called once or twice, there is exactly one edge from
\* a to b, and addEdge(b, a) is accepted as a distinct pair.
OneEdgePerOrderedPair ==
    /\ \A i, j \in 1..Len(edges) :
          i # j => ~(/\ edges[i].source = edges[j].source
                     /\ edges[i].target = edges[j].target)
    /\ (lastOp.op = "addEdge" /\ lastOp.args[1] # lastOp.args[2]) =>
          Cardinality(EdgesOfPair(edges, lastOp.args[1], lastOp.args[2])) = 1

\* C5's case: addEdge(b, a) was called while a -> b existed, and both edges
\* are in the graph
OneEdgePerOrderedPairWitness ==
    /\ lastOp.op = "addEdge"
    /\ lastOp.args[1] \in NodeIds(nodes)
    /\ lastOp.args[2] \in NodeIds(nodes)
    /\ Len(edges) > 1
    /\ edges[Len(edges)].source = lastOp.args[1]
    /\ edges[Len(edges)].target = lastOp.args[2]
    /\ EdgesOfPair(edges, lastOp.args[2], lastOp.args[1]) # {}

\* C6: in every reachable state selectedId is either null or the id of a
\* node currently in state.nodes.
SelectionExists ==
    selectedId = Null \/ selectedId \in NodeIds(nodes)

\* C7: starting from an empty history, after any number and any mix of
\* mutations and undos, state.history never holds more than 50 entries.
HistoryBounded ==
    Len(history) <= HistoryCap

\* C7's case: the stack is full, and its three latest entries were pushed
\* after the stack already held more than HistoryCap - 3 entries of the
\* empty graph
HistoryBoundedWitness ==
    /\ Len(history) = HistoryCap
    /\ Len(history[HistoryCap - 2].nodes) > 0
    /\ steps > 0

Positions(ns) == [i \in 1..Len(ns) |-> <<ns[i].x, ns[i].y>>]

\* C8: autoLayout() terminates on every finite graph, cycles included: the
\* call returns, and its traversal enters each node id at most once.
LayoutVisitsOnce ==
    lastOp.op = "autoLayout" =>
        /\ lastOp.status = "ok"
        /\ \A i, j \in 1..Len(lastOp.trace) :
              i # j => lastOp.trace[i] # lastOp.trace[j]

\* C9: autoLayout() run a second time, with no mutation in between, leaves
\* every node where the first run put it.
LayoutIdempotent ==
    [][(/\ lastOp.op = "autoLayout" /\ lastOp.status = "ok"
        /\ lastOp'.op = "autoLayout" /\ lastOp'.status = "ok")
          => Positions(nodes') = Positions(nodes)]_vars

\* C9's case: a second run has returned on a graph of three nodes and two
\* edges that the first run had to move
LayoutIdempotentWitness ==
    /\ lastOp.op = "autoLayout"
    /\ lastOp.status = "ok"
    /\ steps = 2
    /\ Len(nodes) = 3
    /\ Len(edges) >= 2
    /\ \E i, j \in 1..Len(nodes) : nodes[i].y # nodes[j].y
    /\ \E i, j \in 1..Len(nodes) : nodes[i].x # nodes[j].x

\* exact arithmetic on m * 2^e, for the comparison of rounded results
RECURSIVE Trim(_)
Trim(a) ==
    IF a.m = 0 THEN Zero
    ELSE IF a.m % 2 = 0 THEN Trim([m |-> a.m \div 2, e |-> a.e + 1])
    ELSE a

ExactSum(a, b) ==
    IF a.m = 0 THEN b
    ELSE IF b.m = 0 THEN a
    ELSE IF a.e >= b.e
         THEN Trim([m |-> a.m * Pow2(a.e - b.e) + b.m, e |-> b.e])
         ELSE Trim([m |-> b.m * Pow2(b.e - a.e) + a.m, e |-> a.e])

ExactProduct(a, b) == Trim([m |-> a.m * b.m, e |-> a.e + b.e])

Magnitude(a) == [m |-> Abs(a.m), e |-> a.e]

\* a <= b for a, b >= 0
AtMost(a, b) ==
    IF a.m = 0 THEN TRUE
    ELSE IF a.e >= b.e
         THEN a.e - b.e < 30 /\ a.m <= b.m \div Pow2(a.e - b.e)
         ELSE IF b.e - a.e >= 30 THEN b.m > 0
              ELSE (a.m + Pow2(b.e - a.e) - 1) \div Pow2(b.e - a.e) <= b.m

\* the unit roundoff 2^(-Precision), eight times
EightRoundoffs == [m |-> 1, e |-> 3 - Precision]

\* |after - before| <= 8u * (|before| + |c| / scale), u the unit roundoff
WithinRounding(before, after, c, scale) ==
    AtMost(ExactProduct(Magnitude(ExactSum(Trim(after), Neg(Trim(before)))),
                        Trim(scale)),
           ExactProduct(EightRoundoffs,
                        ExactSum(ExactProduct(Magnitude(Trim(before)),
                                              Trim(scale)),
                                 Magnitude(Trim(c)))))

\* C10: screenToWorld(cx, cy) evaluated after zoom(delta, cx, cy) equals
\* screenToWorld(cx, cy) evaluated before it, the clamped scales included.
ZoomKeepsPoint ==
    [][lastOp'.op = "zoom" =>
          screenToWorld(viewport', lastOp'.args[2], lastOp'.args[3])
            = screenToWorld(viewport, lastOp'.args[2], lastOp'.args[3])]_vars

\* C10, amended: the two results agree up to the rounding of the
\* arithmetic: in each coordinate they differ by at most eight unit
\* roundoffs of |the coordinate before| + |cx or cy| / newScale.
ZoomKeepsPointWithinRounding ==
    [][lastOp'.op = "zoom" =>
          /\ WithinRounding(
                screenToWorld(viewport, lastOp'.args[2], lastOp'.args[3]).x,
                screenToWorld(viewport', lastOp'.args[2], lastOp'.args[3]).x,
                lastOp'.args[2], viewport'.scale)
          /\ WithinRounding(
                screenToWorld(viewport, lastOp'.args[2], lastOp'.args[3]).y,
                screenToWorld(viewport', lastOp'.args[2], lastOp'.args[3]).y,
                lastOp'.args[3], viewport'.scale)]_vars

\* C10's case: a zoom about a point away from the origin of a panned
\* viewport has been clamped at the smallest scale
ZoomKeepsPointWitness ==
    /\ lastOp.op = "zoom"
    /\ lastOp.args[1] = Number(-3, 1)
    /\ lastOp.args[2] = Number(20, 1)
    /\ viewport.scale = Number(1, 10)
    /\ steps = 2
    /\ viewport.x # lastOp.args[2]

\* the kernel's state, what a no-op leaves unchanged
KernelState == <<nodes, edges, selectedId, viewport, history>>

\* C12: undo() called while the history stack holds fewer than 2 entries is
\* a no-op: nodes, edges, selectedId, viewport and history are unchanged.
UndoBelowTwoIsNoOp ==
    [][(lastOp'.op = "undo" /\ Len(history) < 2)
          => UNCHANGED KernelState]_vars

\* C13: undo() called while the history stack holds at least 2 entries
\* removes exactly the top entry and makes the nodes and edges those of the
\* entry then on top, which stays on the stack.
UndoRestoresNewTop ==
    [][(lastOp'.op = "undo" /\ Len(history) >= 2)
          => /\ history' = SubSeq(history, 1, Len(history) - 1)
             /\ nodes' = history'[Len(history')].nodes
             /\ edges' = history'[Len(history')].edges]_vars

\* the history after one push of the snapshot snap
Pushed(h, snap) ==
    IF Len(h) + 1 > HistoryCap THEN Tail(Append(h, snap)) ELSE Append(h, snap)

\* C14: addNode, an accepted addEdge and deleteNode each push exactly one
\* snapshot, and it holds the nodes and edges as they were immediately
\* before the mutation.
SnapshotBeforeMutation ==
    [][(\/ lastOp'.op \in {"addNode", "deleteNode"}
        \/ lastOp'.op = "addEdge" /\ Len(edges') > Len(edges))
          => history' = Pushed(history, [nodes |-> nodes, edges |-> edges])]_vars

\* C15: addNode(config), the config omitted or not, completes without
\* error, appends exactly one node to the end of nodes, returns that node's
\* id and leaves selectedId equal to it.
AddNodeAppendsAndSelects ==
    [][lastOp'.op = "addNode"
          => /\ lastOp'.status = "ok"
             /\ Len(nodes') = Len(nodes) + 1
             /\ SubSeq(nodes', 1, Len(nodes)) = nodes
             /\ lastOp'.value = Returned("string", nodes'[Len(nodes')].id)
             /\ selectedId' = lastOp'.value.id]_vars

\* C16: deleteNode(id) with an id that is not the id of any node is a no-op:
\* nodes, edges, selectedId, viewport and history are unchanged and no
\* subscriber is notified.
DeleteAbsentIsNoOp ==
    [][(lastOp'.op = "deleteNode" /\ lastOp'.args[1] \notin NodeIds(nodes))
          => /\ UNCHANGED KernelState
             /\ notified' = <<>>]_vars

\* the node updateNode(id, ...) finds in ns, for an id ns has
Found(ns, id) == ns[FindNode(ns, id)]

\* C17: updateNode(id, updates) on an existing node changes only the fields
\* named in updates on that one node and leaves every other node, the node
\* order, the edges and selectedId unchanged; on an absent id it changes
\* nothing, pushes no history and notifies no subscriber.
UpdateNodeFrame ==
    [][lastOp'.op = "updateNode"
          => IF lastOp'.args[1] \in NodeIds(nodes)
             THEN /\ Len(nodes') = Len(nodes)
                  /\ \A j \in 1..Len(nodes) :
                        j # FindNode(nodes, lastOp'.args[1])
                            => nodes'[j] = nodes[j]
                  /\ \A f \in DOMAIN Found(nodes, lastOp'.args[1]) :
                        Found(nodes', lastOp'.args[1])[f] =
                            IF f \in DOMAIN lastOp'.args[2]
                            THEN lastOp'.args[2][f]
                            ELSE Found(nodes, lastOp'.args[1])[f]
                  /\ edges' = edges
                  /\ selectedId' = selectedId
             ELSE /\ UNCHANGED KernelState
                  /\ notified' = <<>>]_vars

\* C17's case: updateNode has retitled one of two nodes joined by an edge,
\* in place
UpdateNodeFrameWitness ==
    /\ lastOp.op = "updateNode"
    /\ lastOp.args[1] \in NodeIds(nodes)
    /\ "title" \in DOMAIN lastOp.args[2]
    /\ Len(nodes) >= 2
    /\ \E i, j \in 1..Len(nodes) : nodes[i].title # nodes[j].title

\* a call that changed nodes or edges: addNode, an accepted addEdge,
\* deleteNode and updateNode of an existing node, deleteEdge, an undo that
\* restores
Mutated ==
    \/ lastOp'.op = "addNode" /\ lastOp'.status = "ok"
    \/ lastOp'.op = "addEdge" /\ Len(edges') > Len(edges)
    \/ lastOp'.op \in {"deleteNode", "updateNode"}
          /\ lastOp'.args[1] \in NodeIds(nodes)
    \/ lastOp'.op = "deleteEdge"
    \/ lastOp'.op = "undo" /\ Len(history') < Len(history)

\* C18: every call that changes nodes or edges invokes every registered
\* subscriber exactly once before it returns, in registration order.
MutationNotifiesEachOnce ==
    [][Mutated => notified' = listeners]_vars

\* a write to storage by the kernel: the save timer's, or checkAutoSave's
Wrote ==
    /\ lastOp'.op \in {"save", "checkAutoSave"}
    /\ lastOp'.args = <<"written">>

\* C19: persistence is debounced: at most one deferred save is pending; a
\* notification arriving while one is pending leaves one save pending, due
\* a full window later; and a write happens only once the window has passed
\* since the last mutation, and holds the state as of that mutation.
SaveDebounced ==
    /\ [](Cardinality(timers) <= 1)
    /\ [][(timers # {} /\ quiet' = 0)
            => /\ Cardinality(timers') = 1
               /\ \A t \in timers' : t.left = SaveDelay]_vars
    /\ [][Wrote => /\ quiet >= SaveDelay
                   /\ storage' = Stringify(K)]_vars

\* C20: loading never throws to the caller: when the stored blob is missing
\* or unparsable the constructor returns and the kernel starts from the
\* empty graph (no nodes, no edges, no selection, empty history).
LoadNeverThrows ==
    (lastOp.op = "constructor"
        /\ lastOp.args[1] \in {"missing", "empty", "unparsable"})
      => /\ lastOp.status = "ok"
         /\ nodes = <<>>
         /\ edges = <<>>
         /\ selectedId = Null
         /\ history = <<>>

\* the step re-rendered the page after a change of the state
ReRendered == notified' # <<>>

\* C11: while an editable field holds the focus, a re-render triggered by a
\* change of the state neither destroys nor replaces the focused element
\* (it is still in the document and still holds the focus), and unless the
\* step is the user's own edit the field displays what it displayed.
FocusPreserved ==
    [][(InDocument(dom, focus) /\ ReRendered)
         => /\ focus' = focus
            /\ InDocument(dom', focus)
            /\ (lastOp'.op # "input"
                  => dom'.fields[FieldAt(dom', focus)].value
                       = dom.fields[FieldAt(dom, focus)].value)]_vars

\* C29: an undo() that restores a snapshot leaves selectedId cleared and
\* leaves the viewport's x, y and scale exactly as they were before the
\* call.
UndoClearsSelectionKeepsViewport ==
    [][(lastOp'.op = "undo" /\ Len(history') < Len(history))
          => /\ selectedId' = Null
             /\ viewport' = viewport]_vars

\* a sequence without its i-th element
WithoutIndex(s, i) == SubSeq(s, 1, i - 1) \o SubSeq(s, i + 1, Len(s))

\* what a node is apart from where it is placed
Identities(ns) ==
    [i \in 1..Len(ns) |->
        [id |-> ns[i].id, title |-> ns[i].title, type |-> ns[i].type]]

\* C30: deleteNode(id) of an existing node removes only that node and the
\* edges incident to it: every other node and every edge not incident to
\* id is kept, in the same relative order, and selectedId is left unchanged
\* whenever it differs from id.
DeleteNodeFrame ==
    [][(lastOp'.op = "deleteNode" /\ lastOp'.args[1] \in NodeIds(nodes))
          => /\ Identities(nodes') =
                   Identities(WithoutIndex(nodes,
                                  FindNode(nodes, lastOp'.args[1])))
             /\ edges' = SelectSeqBy(edges,
                            {e \in Range(edges) :
                                /\ e.source # lastOp'.args[1]
                                /\ e.target # lastOp'.args[1]})
             /\ (selectedId # lastOp'.args[1]
                    => selectedId' = selectedId)]_vars

\* C27: after autoLayout() completes on any graph, every node of the graph
\* has been visited and assigned a position by that pass, the nodes that
\* lie on a cycle no root leads to included.
LayoutVisitsEveryNode ==
    (lastOp.op = "autoLayout" /\ lastOp.status = "ok")
      => \A i \in 1..Len(nodes) : nodes[i].id \in Range(lastOp.trace)

\* the node the pass entered p-th is a leaf: it has no outgoing edge, or
\* every child of it had been visited before it was entered
EnteredAsLeaf(p) ==
    \A e \in Range(edges) :
        e.source = lastOp.trace[p]
            => \E q \in 1..(p - 1) : lastOp.trace[q] = e.target

\* C26: during autoLayout() the running vertical counter advances by
\* spacing.y exactly once for each node placed as a leaf (no outgoing
\* edges, or all children already visited), and such a node is placed at
\* the counter's value at that moment: the leaf entered after n other
\* leaves is at y = n * spacing.y.
LeafAdvancesCounter ==
    (lastOp.op = "autoLayout" /\ lastOp.status = "ok"
        /\ variant \in {"v10", "v11"})
      => \A p \in 1..Len(lastOp.trace) :
            EnteredAsLeaf(p)
              => nodes[FindNode(nodes, lastOp.trace[p])].y =
                    Cardinality({q \in 1..(p - 1) : EnteredAsLeaf(q)})
                        * spacing(variant).y

\* the number of edges between a node of a forest and its root
RECURSIVE DepthBelowRoot(_)
DepthBelowRoot(id) ==
    IF \E e \in Range(edges) : e.target = id
    THEN 1 + DepthBelowRoot((CHOOSE e \in Range(edges) : e.target = id).source)
    ELSE 0

\* C24: after autoLayout() on a forest, every node at depth d below its
\* root is at x = d * spacing.x; for the two nodes R -> C, R is placed at
\* (0, 0) and C at (spacing.x, 0).
DepthSetsX ==
    (lastOp.op = "autoLayout" /\ lastOp.status = "ok")
      => /\ \A i \in 1..Len(nodes) :
               nodes[i].x = DepthBelowRoot(nodes[i].id) * spacing(variant).x
         /\ (Len(nodes) = 2 /\ Len(edges) = 1)
               => Positions(nodes) = <<<<0, 0>>, <<spacing(variant).x, 0>>>>

\* when the pass entered the node
EnteredAt(id) == CHOOSE p \in 1..Len(lastOp.trace) : lastOp.trace[p] = id

\* the children of the node that the pass laid out beneath it: entered
\* after it
LaidOutBeneath(id) ==
    {e.target : e \in {f \in Range(edges) : f.source = id}}
        \cap {c \in Range(lastOp.trace) : EnteredAt(c) > EnteredAt(id)}

FirstLaidOut(cs) == CHOOSE c \in cs : \A d \in cs : EnteredAt(c) <= EnteredAt(d)

LastLaidOut(cs) == CHOOSE c \in cs : \A d \in cs : EnteredAt(c) >= EnteredAt(d)

YOf(id) == nodes[FindNode(nodes, id)].y

\* C25: after autoLayout(), every node with at least one child laid out
\* beneath it has y equal to the midpoint between the y of its first-laid-
\* out child and the y of its last-laid-out child.
ParentAtChildrenMidpoint ==
    (lastOp.op = "autoLayout" /\ lastOp.status = "ok")
      => \A id \in Range(lastOp.trace) :
            LaidOutBeneath(id) # {}
              => 2 * YOf(id) = YOf(FirstLaidOut(LaidOutBeneath(id)))
                                + YOf(LastLaidOut(LaidOutBeneath(id)))

\* the order the claim gives two nodes: -1 when a sorts first, 1 when b
\* does, 0 when neither
ClaimedOrder(a, b) ==
    IF BlueprintPriority(a.type) # BlueprintPriority(b.type)
    THEN Sign(BlueprintPriority(a.type) - BlueprintPriority(b.type))
    ELSE IF a.title # b.title
         THEN Sign(TitleRank(a.title) - TitleRank(b.title))
         ELSE Sign(IdRank(a.id) - IdRank(b.id))

\* C28: nodeComparator(a, b) orders by blueprint priority number, the lower
\* number first (priority 0 before priority 1), then for equal priority by
\* title, then for equal priority and equal title by id, so that two nodes
\* with distinct ids never compare as equal.
ComparatorOrders ==
    lastOp.op = "nodeComparator"
      => /\ Sign(lastOp.value.number) =
               ClaimedOrder(nodes[lastOp.args[1]], nodes[lastOp.args[2]])
         /\ (nodes[lastOp.args[1]].id # nodes[lastOp.args[2]].id
               => lastOp.value.number # 0)


\* the step switched the active presentation engine (the view mode)
EngineSwitched ==
    \/ registry'.activeEngineId # registry.activeEngineId
    \/ viewMode' # viewMode

\* a step that rendered the page: a notified call, or a switch of the
\* controller, which renders when it is done
PageRendered == ReRendered \/ lastOp'.op \in {"setActive", "setView"}

\* C22: a surface is emptied and built anew only by a step that switches
\* the active presentation engine (the view mode): a render caused by a
\* change of the state under the same engine empties no surface.
ClearedOnlyOnSwitch ==
    [][(PageRendered /\ dom'.cleared) => EngineSwitched]_vars

\* the ids of the nodes the outliner renders from the state
TreeRendered == {v.node : v \in Range(UpToThrow(TreeWalk(K)))}

\* C21: after a render of the keyed outliner, its surface holds exactly one
\* row for each node it renders from the state and none for a node that is
\* no longer in the state.
OneRowPerRenderedNode ==
    [][(phases = "v12" /\ viewMode' = "tree" /\ PageRendered)
         => /\ {dom'.rows[i].node : i \in 1..Len(dom'.rows)} = TreeRendered'
            /\ \A i, j \in 1..Len(dom'.rows) :
                  dom'.rows[i].node = dom'.rows[j].node => i = j]_vars


\* C23: once the registry is initialised its active id is the id of a
\* registered engine, whatever ids setActive was called with, and the
\* active id changes only in a call of setActive.
ActiveNamesRegisteredEngine ==
    [][/\ registry'.engines # <<>>
          => registry'.activeEngineId \in Range(registry'.engines)
       /\ registry'.activeEngineId # registry.activeEngineId
          => lastOp'.op = "setActive"]_vars


\* the orders in which three siblings can be handed to the sort
Reordered(s) ==
    {<<s[p[1]], s[p[2]], s[p[3]]>> :
        p \in {q \in [1..3 -> 1..3] : q[1] # q[2] /\ q[1] # q[3] /\ q[2] # q[3]}}

\* C38: over nodes with distinct ids nodeComparator is a strict total order:
\* no two nodes compare as equal, swapping the arguments swaps the sign, the
\* order is transitive on every triple, and sorting the siblings gives the
\* same order whatever order they came in.
ComparatorIsStrictTotalOrder ==
    lastOp.op = "sort"
      => /\ \A a, b \in Range(nodes) :
               a.id # b.id
                 => /\ nodeComparator(a, b) # 0
                    /\ Sign(nodeComparator(a, b)) = -Sign(nodeComparator(b, a))
         /\ \A a, b, c \in Range(nodes) :
               (nodeComparator(a, b) < 0 /\ nodeComparator(b, c) < 0)
                 => nodeComparator(a, c) < 0
         /\ \A s \in Reordered(nodes) :
               [i \in 1..3 |-> SortNodes(s)[i].id] = lastOp.trace


\* the edge has an end that is not the id of a node
Dangling(e) == e.source \notin NodeIds(nodes) \/ e.target \notin NodeIds(nodes)

\* the kernel with its dangling edges taken away
WithoutDangling ==
    [K EXCEPT !.edges = SelectSeqBy(edges, {e \in Range(edges) : ~Dangling(e)})]

\* C31: when an edge has an end that is no node, getChildren and getParents
\* leave that end out and autoLayout() completes without an error, with
\* every node where a pass over the graph without that edge puts it.
DanglingEdgesTolerated ==
    (\E e \in Range(edges) : Dangling(e))
      => /\ \A id \in NodeIds(nodes) :
               /\ Range(getChildren(K, id)) \subseteq Range(nodes)
               /\ Range(getParents(K, id)) \subseteq Range(nodes)
         /\ lastOp.op = "autoLayout"
               => /\ lastOp.status = "ok"
                  /\ nodes = autoLayout(variant, WithoutDangling, Null).k.nodes


\* C37: after autoLayout() of a kernel that keeps a visited set, no two
\* distinct nodes the pass positioned are at the same (x, y), graphs in
\* which several parents share an already visited child included.
NoSharedPosition ==
    (variant \in {"v10", "v11"} /\ lastOp.op = "autoLayout"
       /\ lastOp.status = "ok")
      => \A i, j \in 1..Len(nodes) :
            (/\ nodes[i].id # nodes[j].id
             /\ nodes[i].id \in Range(lastOp.trace)
             /\ nodes[j].id \in Range(lastOp.trace))
              => <<nodes[i].x, nodes[i].y>> # <<nodes[j].x, nodes[j].y>>


\* the last call was a mutation that counts for the history (a node or an
\* edge added or removed, a title set) and changed the nodes or the edges
\* the session started from
MutatedOnce ==
    /\ steps = 1
    /\ lastOp.status = "ok"
    /\ \/ lastOp.op \in {"addNode", "addEdge", "deleteNode", "deleteEdge"}
       \/ lastOp.op = "updateNode" /\ "title" \in DOMAIN lastOp.args[2]
    /\ <<nodes, edges>> # <<storage.nodes, storage.edges>>

\* C34: one mutation followed at once by undo() leaves nodes and edges
\* exactly as they were before the mutation, the first mutation of an empty
\* graph included.
UndoRevertsOneMutation ==
    [][(MutatedOnce /\ lastOp'.op = "undo")
         => /\ nodes' = storage.nodes
            /\ edges' = storage.edges]_vars


\* the stored blob holds the state in memory: its text, or nothing while the
\* state is the one a kernel starts from with nothing stored
Persisted ==
    \/ storage = Stringify(K)
    \/ /\ storage = Missing
       /\ Stringify(K) = Stringify(EmptyKernel(variant))

\* a call has just run notify()
JustNotified ==
    /\ lastOp.op \notin {"constructor", "wait", "save", "checkAutoSave"}
    /\ quiet = 0

Observed(h) ==
    LET at == SelectSeq(lastOp.trace, LAMBDA d : d.to = h)
    IN [i \in 1..Len(at) |-> at[i].of]

\* the mutations the last call applied, its subscribers' included
Applied == {d.of : d \in Range(lastOp.trace)}

\* C35: when a callback mutates the state during a notification, every
\* subscriber is given the notifications in the order the mutations were
\* applied, one for each mutation.
ReentrantNotificationsInOrder ==
    \A h \in Range(listeners) :
        Observed(h) = [i \in 1..Cardinality(Applied) |-> i]


\* field i of the inspector displays another value than the state holds for
\* its node
Stale(i) ==
    /\ FindNode(nodes, dom.fields[i].node) # 0
    /\ dom.fields[i].value #
          nodes[FindNode(nodes, dom.fields[i].node)][dom.fields[i].name]

\* a render left the focused field as it was although the state holds
\* another value
OverwriteSkipped ==
    \E i \in 1..Len(dom.fields) : dom.fields[i].el = focus /\ Stale(i)

\* every field of the inspector displays the value held in state
ValuesShown == \A i \in 1..Len(dom.fields) : ~Stale(i)

\* C32: an overwrite skipped because the field was focused is applied once
\* the focus is lost: the field comes to display the value held in state,
\* even if the state does not change after the blur.
SkippedOverwriteApplied == OverwriteSkipped ~> ValuesShown


\* the visits of a walk without the visits of a node already visited
RECURSIVE FirstVisits(_, _)
FirstVisits(vs, seen) ==
    IF vs = <<>> THEN <<>>
    ELSE IF Head(vs).node \in seen THEN FirstVisits(Tail(vs), seen)
    ELSE <<Head(vs)>> \o FirstVisits(Tail(vs), seen \cup {Head(vs).node})

\* the rows of the surface, top to bottom: node and indentation
RowsShown(d) == [i \in 1..Len(d.rows) |-> Visit(d.rows[i].node, d.rows[i].depth)]

\* the step rendered the outliner and the render returned
OutlinerRendered ==
    /\ phases = "v12"
    /\ viewMode' = "tree"
    /\ notified' # <<>>
    /\ lastOp'.status = "ok"

\* C33: after each render of the outliner the rows of the surface, and
\* their indentation, are in the order of the depth-first walk of the state
\* with the children sorted by the comparator.
RowsInTraversalOrder ==
    [][OutlinerRendered
         => RowsShown(dom') = FirstVisits(TreeWalk(K'), {})]_vars

\* the step rendered the outliner or the web preview
ViewRendered ==
    /\ phases = "v12"
    /\ viewMode' \in {"tree", "web"}
    /\ notified' # <<>>

\* C39: the render of the outliner and of the web preview terminates on
\* every graph, cyclic ones included: the walk returns and has visited no
\* node twice.
RenderTerminates ==
    [][ViewRendered
         => /\ lastOp'.status # "RangeError"
            /\ ~Overflows(ViewWalk(viewMode', K'))
            /\ \A i, j \in 1..Len(ViewWalk(viewMode', K')) :
                  ViewWalk(viewMode', K')[i].node
                     = ViewWalk(viewMode', K')[j].node => i = j]_vars

=============================================================================
